---- MODULE Spec2Model ----
(***************************************************************************)
(* Verification model of the dusk-blockchain chain acceptor                *)
(* (pkg/core/chain/chain.go), the lite block store                         *)
(* (pkg/core/database/lite/transactions.go) and the reduction vote         *)
(* Aggregator (reduction/aggregator.go).                                   *)
(*                                                                         *)
(* Every handler is one action.  The functions of the source are operators *)
(* over a record `c` holding the fields of the Chain struct; an operator   *)
(* returns the record after the call together with the returned error.     *)
(***************************************************************************)
EXTENDS Integers, Sequences, FiniteSets, TLC

(***************************************************************************)
(* Bounds of the model.                                                    *)
(***************************************************************************)
MaxHeight == 2

\* the largest number of committee seats one provisioner holds
MaxWeight == 3

\* config.Get().State.PersistEvery
PersistEvery == 2

(***************************************************************************)
(* Blocks.  A block's hash identifies its content.  Per height there are   *)
(* five variants: 1 the main block, 2 a competing block of a later         *)
(* iteration (certificate step # 3), 3 a block whose parent is variant 2,  *)
(* 4 a block failing the verifier's sanity check, 5 a block carrying an    *)
(* invalid certificate.                                                    *)
(***************************************************************************)
Variants == 1..5

\* lock times of the bids stored (transactions.MaxLockTime is not reached)
LockTimes == {0}

Hash(h, v) == 10 * h + v

EmptyHash == 0

Genesis ==
  [height |-> 0, hash |-> Hash(0, 1), prev |-> EmptyHash,
   stateHash |-> Hash(0, 1), step |-> 3, sane |-> TRUE, cert |-> TRUE]

ParentVariant(v) == IF v = 3 THEN 2 ELSE 1

MkBlock(h, v) ==
  [height |-> h, hash |-> Hash(h, v),
   prev |-> IF h = 1 THEN Genesis.hash ELSE Hash(h - 1, ParentVariant(v)),
   stateHash |-> Hash(h, v),
   step |-> IF v = 2 THEN 4 ELSE 3,
   sane |-> v # 4, cert |-> v # 5]

Blocks == {MkBlock(h, v) : h \in 1..MaxHeight, v \in Variants}

(***************************************************************************)
(* Outcomes of the external calls of one handler invocation.  A handler    *)
(* returns at its first error, so one fault point per invocation covers    *)
(* every combination of failing collaborators.                             *)
(*   getroot  Executor.GetStateRoot returns an error                       *)
(*   exec     Executor.Finalize / Accept returns an error                  *)
(*   badroot  Finalize / Accept returns a root other than the declared one *)
(*   marshal  message.MarshalBlock fails on the block                      *)
(*   persist  Executor.Persist returns an error                            *)
(*   revert   the executor's rollback in tryFallback returns an error      *)
(***************************************************************************)
Faults == {"none", "getroot", "exec", "badroot", "marshal", "persist", "revert"}

Nil == "nil"
errInvalidStateHash == "invalid state hash"
NoRoot == -1
BadRoot == 99
NoLoop == [Round |-> 0, P |-> 0, Seed |-> 0, Hash |-> 0]

VARIABLES
  tip,          \* Chain.tip
  p,            \* Chain.p, the provisioner set (named by the block that produced it)
  storage,      \* lite DB.storage: the committed tables
  rusk,         \* the executor's state root
  highestSeen,  \* Chain.highestSeen
  blacklisted,  \* Chain.blacklisted
  state,        \* synchronizer.state
  syncTarget,   \* synchronizer.syncTarget
  loop,         \* the RoundUpdate of the running consensus loop, NoLoop when stopped
  ev,           \* what the last handler invocation did and returned; sync holds the
                \* hashes of the blocks syncWithRusk re-accepted, in order
  handler,      \* Aggregator.handler: the seats each provisioner holds in the committee
  voteSets,     \* Aggregator.voteSets
  ret,          \* the last call of CollectVote and what it returned
  results,      \* the block hashes of the Results returned so far, in order
  lock,         \* Chain.lock: the goroutine holding it exclusively, those holding it shared
  pc,           \* the statement each goroutine working on the chain has reached
  access,       \* the last read or write of Chain.tip or Chain.p, and how the lock was held
  selector,     \* the score Selector of the running round and what it sent
  agreement,    \* the agreement component of the running round and what it published
  reduction,    \* the two reduction steps of one iteration
  detector,     \* the stall Detector of one peer, its loop and its callers
  processor,    \* the MessageProcessor of one peer with its DupeMap, and its last call
  mempool,      \* the Mempool, the goroutines working on it and its last request
  listener      \* a ChanListener, its channel and the last call of Notify

chainVars == <<tip, p, storage, rusk, highestSeen, blacklisted, state, syncTarget, loop>>

aggVars == <<handler, voteSets, ret, results>>

lockVars == <<lock, pc, access>>

peerVars == <<processor, mempool, listener>>

compVars == <<selector, agreement, reduction, detector, processor, mempool, listener>>

vars == <<tip, p, storage, rusk, highestSeen, blacklisted, state, syncTarget, loop, ev,
          handler, voteSets, ret, results, lock, pc, access,
          selector, agreement, reduction, detector, processor, mempool, listener>>

(***************************************************************************)
(* lite block store                                                        *)
(***************************************************************************)
StateKey == "state"

EmptyTable == [x \in {} |-> 0]

Put(table, k, v) == [x \in DOMAIN table \cup {k} |-> IF x = k THEN v ELSE table[x]]

EmptyTables ==
  [blocksInd |-> EmptyTable, heightInd |-> EmptyTable, stateInd |-> EmptyTable,
   bidValuesInd |-> {}]

\* DB.Begin: a transaction over the committed tables with an empty batch
Begin(db, writable) == [writable |-> writable, db |-> db, batch |-> EmptyTables]

\* StoreBlock with the write of the chain state (the tip hash) forgotten
StoreBlockNoState(t, b, marshalFails) ==
  IF ~t.writable THEN [t |-> t, err |-> "read-only transaction"]
  ELSE IF marshalFails THEN [t |-> t, err |-> "marshal"]
  ELSE [t |-> [t EXCEPT !.batch.blocksInd = Put(@, b.hash, b),
                        !.batch.heightInd = Put(@, b.height, b),
                        !.db.bidValuesInd = {k \in @ : ~(k < b.height)}],
        err |-> Nil]

\* transaction.StoreBlock.  The tx-id tables are left out (transactions are
\* not modelled); a batch made by Begin holds its tables, so it is never
\* empty.  Expired bid values are deleted from db.storage itself.
StoreBlock(t, b, marshalFails) ==
  IF ~t.writable THEN [t |-> t, err |-> "read-only transaction"]
  ELSE IF marshalFails THEN [t |-> t, err |-> "marshal"]
  ELSE [t |-> [t EXCEPT !.batch.blocksInd = Put(@, b.hash, b),
                        !.batch.heightInd = Put(@, b.height, b),
                        !.batch.stateInd = Put(@, StateKey, b.hash),
                        !.db.bidValuesInd = {k \in @ : ~(k < b.height)}],
        err |-> Nil]

Merge(table, batch) ==
  [x \in DOMAIN table \cup DOMAIN batch |-> IF x \in DOMAIN batch THEN batch[x] ELSE table[x]]

\* transaction.Commit: the batch is written over the committed tables
Commit(t) ==
  [blocksInd |-> Merge(t.db.blocksInd, t.batch.blocksInd),
   heightInd |-> Merge(t.db.heightInd, t.batch.heightInd),
   stateInd |-> Merge(t.db.stateInd, t.batch.stateInd),
   bidValuesInd |-> t.db.bidValuesInd \cup t.batch.bidValuesInd]

\* DB.Update's end: commit when the closure returned nil, else Rollback, which
\* does nothing (the batch is dropped)
EndUpdate(t, err) == IF err = Nil THEN Commit(t) ELSE t.db

FetchState(db) ==
  IF StateKey \notin DOMAIN db.stateInd \/ db.stateInd[StateKey] = EmptyHash
  THEN [err |-> "ErrStateNotFound", TipHash |-> EmptyHash]
  ELSE [err |-> Nil, TipHash |-> db.stateInd[StateKey]]

FetchBlockHeader(db, hash) ==
  IF hash \notin DOMAIN db.blocksInd
  THEN [err |-> "ErrBlockNotFound", header |-> Genesis]
  ELSE [err |-> Nil, header |-> db.blocksInd[hash]]

FetchBlockHashByHeight(db, height) ==
  IF height \notin DOMAIN db.heightInd
  THEN [err |-> "ErrBlockNotFound", hash |-> EmptyHash]
  ELSE [err |-> Nil, hash |-> db.heightInd[height].hash]

\* transaction.FetchBlock (the transactions of a block are not modelled)
FetchBlock(db, hash) ==
  IF FetchBlockHeader(db, hash).err # Nil
  THEN [err |-> FetchBlockHeader(db, hash).err, blk |-> Genesis]
  ELSE [err |-> Nil, blk |-> FetchBlockHeader(db, hash).header]

FetchCurrentHeight(db) ==
  LET s == FetchState(db) IN
  IF s.err # Nil THEN [err |-> s.err, height |-> 0]
  ELSE LET h == FetchBlockHeader(db, s.TipHash) IN
       IF h.err # Nil THEN [err |-> h.err, height |-> 0]
       ELSE [err |-> Nil, height |-> h.header.height]

\* transaction.StoreBidValues
StoreBidValues(t, lockTime) ==
  LET cur == FetchCurrentHeight(t.db) IN
  IF cur.err # Nil THEN [t |-> t, err |-> cur.err]
  ELSE [t |-> [t EXCEPT !.batch.bidValuesInd = @ \cup {lockTime + cur.height}],
        err |-> Nil]

\* Loader.BlockAt
BlockAt(db, height) == db.heightInd[height]

\* Loader.LoadTip: the block of the store's tip hash; the persisted hash,
\* the hash of the block whose state the executor persisted last, is handed
\* through
LoadTip(db, persistedHash, fault) ==
  LET Loaded(s) ==
        IF fault = "loadtip" \/ s.err # Nil \/ FetchBlock(db, s.TipHash).err # Nil
        THEN [err |-> "tip not loaded", prevBlock |-> Genesis, persistedHash |-> EmptyHash]
        ELSE [err |-> Nil, prevBlock |-> FetchBlock(db, s.TipHash).blk,
              persistedHash |-> persistedHash]
  IN Loaded(FetchState(db))

(***************************************************************************)
(* Collaborators outside the chain package.                                *)
(***************************************************************************)
\* Verifier.SanityCheckBlock: the block's own fields are in bounds and its
\* prev-hash is the hash of the block it is checked against
SanityCheckBlock(prevBlock, blk) ==
  IF blk.sane /\ blk.prev = prevBlock.hash THEN Nil ELSE "sanity check failed"

\* verifiers.CheckBlockCertificate
CheckBlockCertificate(provisioners, blk, seed) ==
  IF blk.cert THEN Nil ELSE "invalid certificate"

\* Executor.GetStateRoot
GetStateRoot(c, fault) ==
  IF fault = "getroot" THEN [err |-> "executor unavailable", root |-> NoRoot]
  ELSE [err |-> Nil, root |-> c.rusk]

\* Executor.Finalize / Executor.Accept: the transactions are applied on the
\* previous root; the executor then holds the root it returns, and the
\* provisioner set it returns is the one after the block
ExecuteBlock(c, blk, prevRoot, fault) ==
  IF fault = "exec"
  THEN [err |-> "executor unavailable", rusk |-> c.rusk, provisioners |-> c.p, root |-> NoRoot]
  ELSE LET root == IF fault = "badroot" THEN BadRoot ELSE blk.stateHash IN
       [err |-> Nil, rusk |-> root, provisioners |-> blk.hash, root |-> root]

\* Executor.Persist
ExecutorPersist(root, fault) == IF fault = "persist" THEN "persist failed" ELSE Nil

\* dupemap.TmpMap.Has / Add on the blacklist, whose height the chain never advances
TmpMapHas(m, hash) == hash \in m

TmpMapAdd(m, hash) == m \cup {hash}

Call(c, name) == [c EXCEPT !.log = Append(@, name)]

(***************************************************************************)
(* pkg/core/chain/chain.go                                                 *)
(***************************************************************************)
\* Chain.getRoundUpdate
getRoundUpdate(c) ==
  [Round |-> c.tip.height + 1, P |-> c.p, Seed |-> c.tip.hash, Hash |-> c.tip.hash]

\* Chain.RestartConsensus: the running loop is stopped and a new one is
\* started on the round update of the current tip
RestartConsensus(c) == [Call(c, "RestartConsensus") EXCEPT !.loop = getRoundUpdate(c)]

\* Chain.StopConsensus
StopConsensus(c) == [c EXCEPT !.loop = NoLoop]

\* Chain.sanityCheckStateHash
sanityCheckStateHash(c, fault) ==
  LET r == GetStateRoot(c, fault)
      nodeStateHash == c.tip.stateHash
  IN IF r.err # Nil THEN r.err
     ELSE IF nodeStateHash # r.root \/ nodeStateHash = EmptyHash THEN errInvalidStateHash
     ELSE Nil

\* Chain.isValidBlock
isValidBlock(c, blk, chainTipBlk, withSanityCheck) ==
  IF withSanityCheck /\ SanityCheckBlock(chainTipBlk, blk) # Nil
  THEN SanityCheckBlock(chainTipBlk, blk)
  ELSE CheckBlockCertificate(c.p, blk, chainTipBlk.hash)

\* runStateTransition with the comparison of the returned root left out
runStateTransitionNoCompare(c, tipBlk, blk, fault) ==
  LET Executed(c2, r) ==
        IF r.err # Nil THEN [c |-> c2, err |-> r.err, resp |-> NoRoot]
        ELSE [c |-> [c2 EXCEPT !.rusk = r.rusk, !.p = r.provisioners],
              err |-> Nil, resp |-> r.root]
      Checked(c1, e1) ==
        IF e1 # Nil THEN [c |-> c1, err |-> e1, resp |-> NoRoot]
        ELSE Executed(Call(c1, IF blk.step = 3 THEN "Finalize" ELSE "Accept"),
                      ExecuteBlock(c1, blk, tipBlk.stateHash, fault))
  IN Checked(Call(c, "GetStateRoot"), sanityCheckStateHash(c, fault))

\* runStateTransition with the running round sharing the chain's provisioner
\* set: the RoundUpdate made without a copy and the set updated in place
runStateTransitionSharingProvisioners(c, tipBlk, blk, fault) ==
  LET Executed(c2, r) ==
        IF r.err # Nil THEN [c |-> c2, err |-> r.err, resp |-> NoRoot]
        ELSE IF r.root # blk.stateHash
        THEN [c |-> [c2 EXCEPT !.rusk = r.rusk], err |-> errInvalidStateHash, resp |-> r.root]
        ELSE [c |-> [c2 EXCEPT !.rusk = r.rusk, !.p = r.provisioners,
                               !.loop = IF @ = NoLoop THEN @
                                        ELSE [@ EXCEPT !.P = r.provisioners]],
              err |-> Nil, resp |-> r.root]
      Checked(c1, e1) ==
        IF e1 # Nil THEN [c |-> c1, err |-> e1, resp |-> NoRoot]
        ELSE Executed(Call(c1, IF blk.step = 3 THEN "Finalize" ELSE "Accept"),
                      ExecuteBlock(c1, blk, tipBlk.stateHash, fault))
  IN Checked(Call(c, "GetStateRoot"), sanityCheckStateHash(c, fault))

\* runStateTransition calling Finalize whatever the certificate's step
runStateTransitionAlwaysFinalize(c, tipBlk, blk, fault) ==
  LET Executed(c2, r) ==
        IF r.err # Nil THEN [c |-> c2, err |-> r.err, resp |-> NoRoot]
        ELSE IF r.root # blk.stateHash
        THEN [c |-> [c2 EXCEPT !.rusk = r.rusk], err |-> errInvalidStateHash, resp |-> r.root]
        ELSE [c |-> [c2 EXCEPT !.rusk = r.rusk, !.p = r.provisioners],
              err |-> Nil, resp |-> r.root]
      Checked(c1, e1) ==
        IF e1 # Nil THEN [c |-> c1, err |-> e1, resp |-> NoRoot]
        ELSE Executed(Call(c1, "Finalize"), ExecuteBlock(c1, blk, tipBlk.stateHash, fault))
  IN Checked(Call(c, "GetStateRoot"), sanityCheckStateHash(c, fault))

\* Chain.runStateTransition.  resp is the root the executor returned.
runStateTransition(c, tipBlk, blk, fault) ==
  LET Executed(c2, r) ==
        IF r.err # Nil THEN [c |-> c2, err |-> r.err, resp |-> NoRoot]
        ELSE IF r.root # blk.stateHash
        THEN [c |-> [c2 EXCEPT !.rusk = r.rusk], err |-> errInvalidStateHash, resp |-> r.root]
        ELSE [c |-> [c2 EXCEPT !.rusk = r.rusk, !.p = r.provisioners],
              err |-> Nil, resp |-> r.root]
      Checked(c1, e1) ==
        IF e1 # Nil THEN [c |-> c1, err |-> e1, resp |-> NoRoot]
        ELSE Executed(Call(c1, IF blk.step = 3 THEN "Finalize" ELSE "Accept"),
                      ExecuteBlock(c1, blk, tipBlk.stateHash, fault))
  IN Checked(Call(c, "GetStateRoot"), sanityCheckStateHash(c, fault))

\* persist calling Executor.Persist for every block
persistEveryBlock(c, b, fault) ==
  LET Persisted(c2, t, perr) == [c |-> [c2 EXCEPT !.storage = EndUpdate(t, perr)], err |-> perr]
      Stored(c1, s) ==
        IF s.err # Nil THEN [c |-> [c1 EXCEPT !.storage = EndUpdate(s.t, s.err)], err |-> s.err]
        ELSE Persisted(Call(c1, "Persist"), s.t, ExecutorPersist(b.stateHash, fault))
  IN Stored(Call(c, "StoreBlock"), StoreBlock(Begin(c.storage, TRUE), b, fault = "marshal"))

\* Chain.persist: one db.Update holding StoreBlock and, every PersistEvery
\* blocks, Executor.Persist
persist(c, b, fault) ==
  LET pflag == PersistEvery > 0 /\ b.height % PersistEvery = 0
      Persisted(c2, t, perr) == [c |-> [c2 EXCEPT !.storage = EndUpdate(t, perr)], err |-> perr]
      Stored(c1, s) ==
        IF s.err # Nil THEN [c |-> [c1 EXCEPT !.storage = EndUpdate(s.t, s.err)], err |-> s.err]
        ELSE IF pflag
        THEN Persisted(Call(c1, "Persist"), s.t, ExecutorPersist(b.stateHash, fault))
        ELSE [c |-> [c1 EXCEPT !.storage = EndUpdate(s.t, Nil)], err |-> Nil]
  IN Stored(Call(c, "StoreBlock"), StoreBlock(Begin(c.storage, TRUE), b, fault = "marshal"))

\* Chain.postAcceptBlock
postAcceptBlock(c, blk) == Call(Call(c, "Publish AcceptedBlock"), "ClearCandidateMessages")

\* the assignment c.tip = b, recorded among the calls of the handler
SetTip(c, b) == [Call(c, "c.tip = b") EXCEPT !.tip = b]

\* acceptBlock running the post-accept events before the block is persisted
acceptBlockStepsPublishingFirst(c, blk, withSanityCheck, fault) ==
  LET Persisted(r3, resp) ==
        IF r3.err # Nil THEN [c |-> r3.c, err |-> r3.err, resp |-> resp]
        ELSE [c |-> SetTip(r3.c, blk), err |-> Nil, resp |-> resp]
      Transitioned(r2) ==
        IF r2.err # Nil THEN r2
        ELSE Persisted(persist(postAcceptBlock(r2.c, blk), blk, fault), r2.resp)
      Validated(e1) ==
        IF e1 # Nil THEN [c |-> c, err |-> e1, resp |-> NoRoot]
        ELSE Transitioned(runStateTransition(c, c.tip, blk, fault))
  IN Validated(isValidBlock(c, blk, c.tip, withSanityCheck))

\* Chain.acceptBlock.  resp is the root the executor returned.
acceptBlockSteps(c, blk, withSanityCheck, fault) ==
  LET Persisted(r3, resp) ==
        IF r3.err # Nil THEN [c |-> r3.c, err |-> r3.err, resp |-> resp]
        ELSE [c |-> postAcceptBlock(SetTip(r3.c, blk), blk), err |-> Nil, resp |-> resp]
      Transitioned(r2) ==
        IF r2.err # Nil THEN r2 ELSE Persisted(persist(r2.c, blk, fault), r2.resp)
      Validated(e1) ==
        IF e1 # Nil THEN [c |-> c, err |-> e1, resp |-> NoRoot]
        ELSE Transitioned(runStateTransition(c, c.tip, blk, fault))
  IN Validated(isValidBlock(c, blk, c.tip, withSanityCheck))

\* Chain.acceptBlock, with the record of the call: the block, the error
\* returned, the root the executor returned, and tip, provisioners and
\* block store as they were when the call was made
acceptBlock(c, blk, withSanityCheck, fault) ==
  LET Record(r) ==
        [c |-> [r.c EXCEPT !.acc = [called |-> TRUE, blk |-> blk, err |-> r.err,
                                    resp |-> r.resp, tip |-> c.tip, p |-> c.p,
                                    storage |-> c.storage]],
         err |-> r.err]
  IN Record(acceptBlockSteps(c, blk, withSanityCheck, fault))

\* the re-accepting loop of syncWithRusk ending after its first block
reacceptBlocksOnce(c, i, n, fault, at, done) ==
  LET Accepted(r, blk) ==
        IF r.err # Nil THEN [c |-> r.c, err |-> r.err, sync |-> done]
        ELSE [c |-> r.c, err |-> Nil, sync |-> Append(done, blk.hash)]
      Fetched(f) ==
        IF f.err # Nil THEN [c |-> c, err |-> Nil, sync |-> done]
        ELSE Accepted(acceptBlock(c, f.blk, FALSE, IF n = at THEN fault ELSE "none"), f.blk)
      Found(h) ==
        IF h.err # Nil THEN [c |-> c, err |-> Nil, sync |-> done]
        ELSE Fetched(FetchBlock(c.storage, h.hash))
  IN Found(FetchBlockHashByHeight(c.storage, i))

\* Chain.syncWithRusk, the loop re-accepting the blocks above the persisted
\* one: i is the height fetched, n counts the iterations, done holds the
\* hashes of the blocks re-accepted so far.  The fault strikes in iteration at.
RECURSIVE reacceptBlocks(_, _, _, _, _, _)
reacceptBlocks(c, i, n, fault, at, done) ==
  LET Accepted(r, blk) ==
        IF r.err # Nil THEN [c |-> r.c, err |-> r.err, sync |-> done]
        ELSE reacceptBlocks(r.c, i + 1, n + 1, fault, at, Append(done, blk.hash))
      Fetched(f) ==
        IF f.err # Nil THEN [c |-> c, err |-> Nil, sync |-> done]
        ELSE Accepted(acceptBlock(c, f.blk, FALSE, IF n = at THEN fault ELSE "none"), f.blk)
      Found(h) ==
        IF h.err # Nil THEN [c |-> c, err |-> Nil, sync |-> done]
        ELSE Fetched(FetchBlock(c.storage, h.hash))
  IN Found(FetchBlockHashByHeight(c.storage, i))

\* Chain.syncWithRusk.  persistedHash is what LoadTip returns as the
\* persisted hash; a fault with at = 0 strikes before the loop.
syncWithRusk(c, persistedHash, fault, at) ==
  LET Compared(c1, f, prevBlock) ==
        IF f.err # Nil THEN [c |-> c1, err |-> f.err, sync |-> <<>>]
        ELSE IF f.blk.stateHash # c1.rusk
        THEN [c |-> c1, err |-> "invalid state detected", sync |-> <<>>]
        ELSE IF persistedHash = prevBlock.hash
        THEN [c |-> [c1 EXCEPT !.tip = f.blk], err |-> Nil, sync |-> <<>>]
        ELSE reacceptBlocks([c1 EXCEPT !.tip = f.blk], f.blk.height + 1, 1, fault, at, <<>>)
      Loaded(c1, l) ==
        IF l.err # Nil THEN [c |-> c1, err |-> l.err, sync |-> <<>>]
        ELSE Compared(c1, FetchBlock(c1.storage, l.persistedHash), l.prevBlock)
      Rooted(c1, r) ==
        IF r.err # Nil THEN [c |-> c1, err |-> r.err, sync |-> <<>>]
        ELSE Loaded(Call(c1, "LoadTip"), LoadTip(c1.storage, persistedHash,
                                                 IF at = 0 THEN fault ELSE "none"))
  IN Rooted(Call(c, "GetStateRoot"), GetStateRoot(c, IF at = 0 THEN fault ELSE "none"))

\* Chain.propagateBlock: the gossip path returns nil; the kadcast path fails
\* only when marshalling the block fails, which StoreBlock has already done
propagateBlock(c, blk, fault) == [c |-> Call(c, "propagateBlock"), err |-> Nil]

\* Chain.acceptSuccessiveBlock
acceptSuccessiveBlock(c, blk, fault) ==
  LET Accepted(r) ==
        IF r.err # Nil THEN r
        ELSE propagateBlock([r.c EXCEPT !.highestSeen = IF blk.height > @ THEN blk.height ELSE @],
                            blk, fault)
  IN Accepted(acceptBlock(c, blk, TRUE, fault))

\* TryNextConsecutiveBlockInSync without the restart of the consensus loop
TryNextConsecutiveBlockInSyncNoRestart(c, blk, fault) == acceptSuccessiveBlock(c, blk, fault)

\* Chain.TryNextConsecutiveBlockInSync
TryNextConsecutiveBlockInSync(c, blk, fault) ==
  LET Accepted(r) == IF r.err # Nil THEN r ELSE [c |-> RestartConsensus(r.c), err |-> Nil]
  IN Accepted(acceptSuccessiveBlock(c, blk, fault))

\* TryNextConsecutiveBlockOutSync taking the in-sync path
TryNextConsecutiveBlockOutSyncRestarting(c, blk, fault) ==
  TryNextConsecutiveBlockInSync(c, blk, fault)

\* Chain.TryNextConsecutiveBlockOutSync
TryNextConsecutiveBlockOutSync(c, blk, fault) == acceptBlock(c, blk, TRUE, fault)

\* Chain.tryFallback: the incoming block is checked against the tip's parent,
\* the executor is rolled back to the parent's state and the parent becomes
\* the tip again; the incoming block is then accepted by the synchronizer
\* as the next consecutive block
tryFallback(c, blk, fault) ==
  LET Checked(c1, parent, e1) ==
        IF e1 # Nil THEN [c |-> c1, err |-> e1]
        ELSE IF fault = "revert" THEN [c |-> Call(c1, "Revert"), err |-> "revert failed"]
        ELSE [c |-> [Call(c1, "Revert") EXCEPT !.rusk = parent.stateHash, !.tip = parent],
              err |-> Nil]
      Parent(c1, parent) == Checked(c1, parent, isValidBlock(c, blk, parent, TRUE))
  IN IF c.tip.height = 0 THEN [c |-> Call(c, "tryFallback"), err |-> "no parent"]
     ELSE Parent(Call(c, "tryFallback"), BlockAt(c.storage, c.tip.height - 1))

\* synchronizer.processBlock: the in-sync and the out-of-sync state of the
\* synchroniser's transition table
processBlock(c, currentHeight, blk, fault) ==
  LET Accepted(r) ==
        IF r.err # Nil THEN r
        ELSE IF r.c.tip.height = r.c.syncTarget
        THEN [c |-> [RestartConsensus(r.c) EXCEPT !.state = "inSync"], err |-> Nil]
        ELSE r
  IN IF c.state = "inSync"
     THEN IF blk.height > currentHeight + 1
          THEN [c |-> [StopConsensus(Call(c, "GetBlocks")) EXCEPT !.state = "outSync",
                                                                 !.syncTarget = blk.height],
                err |-> Nil]
          ELSE TryNextConsecutiveBlockInSync(c, blk, fault)
     ELSE IF blk.height = currentHeight + 1
          THEN Accepted(TryNextConsecutiveBlockOutSync(c, blk, fault))
          ELSE [c |-> c, err |-> Nil]

\* ProcessBlockFromNetwork without the blacklist filter
IsBlacklistedNever(c, blk) == FALSE

\* Chain.ProcessBlockFromNetwork, the blacklist filter
IsBlacklisted(c, blk) == TmpMapHas(c.blacklisted, blk.hash)

\* ProcessBlockFromNetwork taking the tip itself for a competing block
ProcessBlockFromNetworkNoKnown(c, blk, fault) ==
  LET Processed(r, path) == [c |-> r.c, err |-> r.err, path |-> path]
      Synchronize(c1, path) == Processed(processBlock(c1, c1.tip.height, blk, fault), path)
      FellBack(fb, hash) ==
        IF fb.err # Nil THEN [c |-> fb.c, err |-> Nil, path |-> "fallback failed"]
        ELSE Synchronize([fb.c EXCEPT !.blacklisted = TmpMapAdd(@, hash)], "fallback")
  IN IF IsBlacklisted(c, blk) THEN [c |-> c, err |-> Nil, path |-> "blacklisted"]
     ELSE IF blk.height = c.tip.height
     THEN FellBack(tryFallback(c, blk, fault), c.tip.hash)
     ELSE IF blk.height < c.tip.height THEN [c |-> c, err |-> Nil, path |-> "past"]
     ELSE Synchronize([c EXCEPT !.highestSeen = IF blk.height > @ THEN blk.height ELSE @],
                      "sync")

\* Chain.ProcessBlockFromNetwork.  path names the branch taken.
ProcessBlockFromNetwork(c, blk, fault) ==
  LET Processed(r, path) == [c |-> r.c, err |-> r.err, path |-> path]
      Synchronize(c1, path) == Processed(processBlock(c1, c1.tip.height, blk, fault), path)
      FellBack(fb, hash) ==
        IF fb.err # Nil THEN [c |-> fb.c, err |-> Nil, path |-> "fallback failed"]
        ELSE Synchronize([fb.c EXCEPT !.blacklisted = TmpMapAdd(@, hash)], "fallback")
  IN IF IsBlacklisted(c, blk) THEN [c |-> c, err |-> Nil, path |-> "blacklisted"]
     ELSE IF blk.height = c.tip.height
     THEN IF blk.hash = c.tip.hash THEN [c |-> c, err |-> Nil, path |-> "known"]
          ELSE FellBack(tryFallback(c, blk, fault), c.tip.hash)
     ELSE IF blk.height < c.tip.height THEN [c |-> c, err |-> Nil, path |-> "past"]
     ELSE Synchronize([c EXCEPT !.highestSeen = IF blk.height > @ THEN blk.height ELSE @],
                      "sync")

\* ProcessSyncTimerExpired without the restart of the consensus loop
ProcessSyncTimerExpiredNoRestart(c) == [c |-> [c EXCEPT !.state = "inSync"], err |-> Nil]

\* Chain.ProcessSyncTimerExpired
ProcessSyncTimerExpired(c) == [c |-> [RestartConsensus(c) EXCEPT !.state = "inSync"], err |-> Nil]

(***************************************************************************)
(* reduction Aggregator (reduction/aggregator.go)                          *)
(***************************************************************************)
Members == 1..3

VoteHashes == {1, 2}

RECURSIVE Sum(_, _)
Sum(f, S) == IF S = {} THEN 0 ELSE LET x == CHOOSE y \in S : TRUE IN f[x] + Sum(f, S \ {x})

\* Handler.VotesFor: the seats the sender holds in the committee of the step
VotesFor(h, sender) == IF sender \in DOMAIN h THEN h[sender] ELSE 0

\* the size of the committee: its seats
CommitteeSize(h) == Sum(h, DOMAIN h)

\* Handler.Quorum: ceil(2 * size / 3) + 1
Quorum(h) == (2 * CommitteeSize(h) + 2) \div 3 + 1

\* message.NewStepVotes
NewStepVotes == [Apk |-> {}, BitSet |-> {}]

\* StepVotes.Add: the sender's key and signature are aggregated; the same
\* sender added twice is an error
StepVotesAdd(sv, sender) ==
  IF sender \in sv.Apk THEN [sv |-> sv, err |-> "duplicate vote"]
  ELSE [sv |-> [sv EXCEPT !.Apk = @ \cup {sender}], err |-> Nil]

\* sortedset.NewCluster: a multiset of keys
NewCluster == [x \in {} |-> 0]

\* Cluster.Insert
ClusterInsert(cl, k) ==
  [x \in DOMAIN cl \cup {k} |-> IF x = k THEN (IF k \in DOMAIN cl THEN cl[k] + 1 ELSE 1)
                                ELSE cl[x]]

\* Cluster.TotalOccurrences
TotalOccurrences(cl) == Sum(cl, DOMAIN cl)

\* the sender inserted once, whatever its seats
InsertVotesOnce(cl, k, votes) == IF votes = 0 THEN cl ELSE ClusterInsert(cl, k)

\* the loop of CollectVote inserting the sender once per seat
RECURSIVE InsertVotes(_, _, _)
InsertVotes(cl, k, votes) ==
  IF votes = 0 THEN cl ELSE InsertVotes(ClusterInsert(cl, k), k, votes - 1)

\* Aggregator.addBitSet: the committee members found in the cluster
addBitSet(h, sv, cl) == [sv EXCEPT !.BitSet = {m \in DOMAIN cl : VotesFor(h, m) > 0}]

NoResult == [kind |-> "nil", hash |-> 0, StepVotes |-> NewStepVotes]

Panic == [kind |-> "panic", hash |-> 0, StepVotes |-> NewStepVotes]

\* NewAggregator
NewAggregator(h) == [handler |-> h, voteSets |-> [x \in {} |-> 0]]

\* CollectVote keeping one entry for all block hashes
CollectVoteOneEntry(a, e) ==
  LET Counted(sv, cl) ==
        IF TotalOccurrences(cl) >= Quorum(a.handler)
        THEN [a |-> [a EXCEPT !.voteSets = Put(@, 0, [StepVotes |-> addBitSet(a.handler, sv, cl),
                                                      Cluster |-> cl])],
              result |-> [kind |-> "result", hash |-> e.hash,
                          StepVotes |-> addBitSet(a.handler, sv, cl)]]
        ELSE [a |-> [a EXCEPT !.voteSets = Put(@, 0, [StepVotes |-> sv, Cluster |-> cl])],
              result |-> NoResult]
      Added(added, cl) ==
        IF added.err # Nil THEN [a |-> a, result |-> Panic]
        ELSE Counted(added.sv, InsertVotes(cl, e.sender, VotesFor(a.handler, e.sender)))
      Found(sv) == Added(StepVotesAdd(sv.StepVotes, e.sender), sv.Cluster)
  IN Found(IF 0 \in DOMAIN a.voteSets THEN a.voteSets[0]
           ELSE [StepVotes |-> NewStepVotes, Cluster |-> NewCluster])

\* CollectVote returning a Result only when the weight exceeds the quorum
CollectVoteAboveQuorum(a, e) ==
  LET Counted(sv, cl) ==
        IF TotalOccurrences(cl) > Quorum(a.handler)
        THEN [a |-> [a EXCEPT !.voteSets = Put(@, e.hash,
                                               [StepVotes |-> addBitSet(a.handler, sv, cl),
                                                Cluster |-> cl])],
              result |-> [kind |-> "result", hash |-> e.hash,
                          StepVotes |-> addBitSet(a.handler, sv, cl)]]
        ELSE [a |-> [a EXCEPT !.voteSets = Put(@, e.hash, [StepVotes |-> sv, Cluster |-> cl])],
              result |-> NoResult]
      Added(added, cl) ==
        IF added.err # Nil THEN [a |-> a, result |-> Panic]
        ELSE Counted(added.sv, InsertVotes(cl, e.sender, VotesFor(a.handler, e.sender)))
      Found(sv) == Added(StepVotesAdd(sv.StepVotes, e.sender), sv.Cluster)
  IN Found(IF e.hash \in DOMAIN a.voteSets THEN a.voteSets[e.hash]
           ELSE [StepVotes |-> NewStepVotes, Cluster |-> NewCluster])

\* CollectVote going on when StepVotes.Add returns an error
CollectVoteNoPanic(a, e) ==
  LET Counted(sv, cl) ==
        IF TotalOccurrences(cl) >= Quorum(a.handler)
        THEN [a |-> [a EXCEPT !.voteSets = Put(@, e.hash,
                                               [StepVotes |-> addBitSet(a.handler, sv, cl),
                                                Cluster |-> cl])],
              result |-> [kind |-> "result", hash |-> e.hash,
                          StepVotes |-> addBitSet(a.handler, sv, cl)]]
        ELSE [a |-> [a EXCEPT !.voteSets = Put(@, e.hash, [StepVotes |-> sv, Cluster |-> cl])],
              result |-> NoResult]
      Added(added, cl) ==
        Counted(added.sv, InsertVotes(cl, e.sender, VotesFor(a.handler, e.sender)))
      Found(sv) == Added(StepVotesAdd(sv.StepVotes, e.sender), sv.Cluster)
  IN Found(IF e.hash \in DOMAIN a.voteSets THEN a.voteSets[e.hash]
           ELSE [StepVotes |-> NewStepVotes, Cluster |-> NewCluster])

\* CollectVote returning a Result for every vote
CollectVoteFirstVote(a, e) ==
  LET Counted(sv, cl) ==
        [a |-> [a EXCEPT !.voteSets = Put(@, e.hash,
                                          [StepVotes |-> addBitSet(a.handler, sv, cl),
                                           Cluster |-> cl])],
         result |-> [kind |-> "result", hash |-> e.hash,
                     StepVotes |-> addBitSet(a.handler, sv, cl)]]
      Added(added, cl) ==
        IF added.err # Nil THEN [a |-> a, result |-> Panic]
        ELSE Counted(added.sv, InsertVotes(cl, e.sender, VotesFor(a.handler, e.sender)))
      Found(sv) == Added(StepVotesAdd(sv.StepVotes, e.sender), sv.Cluster)
  IN Found(IF e.hash \in DOMAIN a.voteSets THEN a.voteSets[e.hash]
           ELSE [StepVotes |-> NewStepVotes, Cluster |-> NewCluster])

\* Aggregator.CollectVote.  e is the Reduction message: its sender and the
\* block hash voted for.  A panic leaves the aggregator as it was.
CollectVote(a, e) ==
  LET Counted(sv, cl) ==
        IF TotalOccurrences(cl) >= Quorum(a.handler)
        THEN [a |-> [a EXCEPT !.voteSets = Put(@, e.hash,
                                               [StepVotes |-> addBitSet(a.handler, sv, cl),
                                                Cluster |-> cl])],
              result |-> [kind |-> "result", hash |-> e.hash,
                          StepVotes |-> addBitSet(a.handler, sv, cl)]]
        ELSE [a |-> [a EXCEPT !.voteSets = Put(@, e.hash, [StepVotes |-> sv, Cluster |-> cl])],
              result |-> NoResult]
      Added(added, cl) ==
        IF added.err # Nil THEN [a |-> a, result |-> Panic]
        ELSE Counted(added.sv, InsertVotes(cl, e.sender, VotesFor(a.handler, e.sender)))
      Found(sv) == Added(StepVotesAdd(sv.StepVotes, e.sender), sv.Cluster)
  IN Found(IF e.hash \in DOMAIN a.voteSets THEN a.voteSets[e.hash]
           ELSE [StepVotes |-> NewStepVotes, Cluster |-> NewCluster])

(***************************************************************************)
(* The state machine.                                                      *)
(***************************************************************************)
NoAcc ==
  [called |-> FALSE, blk |-> Genesis, err |-> Nil, resp |-> NoRoot,
   tip |-> Genesis, p |-> 0, storage |-> EmptyTables]

\* the Chain struct as the handlers find it
chain ==
  [tip |-> tip, p |-> p, storage |-> storage, rusk |-> rusk, highestSeen |-> highestSeen,
   blacklisted |-> blacklisted, state |-> state, syncTarget |-> syncTarget, loop |-> loop,
   log |-> <<>>, acc |-> NoAcc]

Install(c) ==
  /\ tip' = c.tip
  /\ p' = c.p
  /\ storage' = c.storage
  /\ rusk' = c.rusk
  /\ highestSeen' = c.highestSeen
  /\ blacklisted' = c.blacklisted
  /\ state' = c.state
  /\ syncTarget' = c.syncTarget
  /\ loop' = c.loop

(***************************************************************************)
(* The goroutines reading and writing Chain.tip and Chain.p, and the lock.  *)
(*   network    a peer's goroutine in ProcessBlockFromNetwork              *)
(*   timer      the out-of-sync timer in ProcessSyncTimerExpired           *)
(*   candidate  the consensus loop in VerifyCandidateBlock                 *)
(*   progress   a gRPC request in CalculateSyncProgress                    *)
(*   stakes     the goroutine postAcceptBlock starts on                    *)
(*              storeStakesInStormDB when the API is enabled               *)
(***************************************************************************)
Goroutines == {"network", "timer", "candidate", "progress", "stakes"}

NoGoroutine == "none"

NoAccess ==
  [by |-> NoGoroutine, field |-> "none", write |-> FALSE, exclusive |-> FALSE,
   shared |-> FALSE, holder |-> NoGoroutine]

\* sync.RWMutex unlocked, every goroutine outside the chain's functions
InitLock ==
  /\ lock = [writer |-> NoGoroutine, readers |-> {}]
  /\ pc = [g \in Goroutines |-> "idle"]
  /\ access = NoAccess

\* goroutine g reads or writes a field of the Chain struct
Touch(g, field, write) ==
  access' = [by |-> g, field |-> field, write |-> write, exclusive |-> lock.writer = g,
             shared |-> g \in lock.readers, holder |-> lock.writer]

Goto(g, stmt) == pc' = [pc EXCEPT ![g] = stmt]

\* sync.RWMutex.Lock
Lock(g) ==
  /\ lock.writer = NoGoroutine
  /\ lock.readers = {}
  /\ lock' = [lock EXCEPT !.writer = g]

\* sync.RWMutex.Unlock
Unlock(g) == lock' = [lock EXCEPT !.writer = NoGoroutine]

\* sync.RWMutex.RLock
RLock(g) ==
  /\ lock.writer = NoGoroutine
  /\ lock' = [lock EXCEPT !.readers = @ \cup {g}]

\* sync.RWMutex.RUnlock
RUnlock(g) == lock' = [lock EXCEPT !.readers = @ \ {g}]

\* ProcessBlockFromNetwork: c.lock.Lock()
NetworkLock ==
  /\ pc["network"] = "idle"
  /\ Lock("network")
  /\ Goto("network", "locked")
  /\ UNCHANGED <<access, chainVars, ev, aggVars, compVars>>

\* ProcessBlockFromNetwork compares the block with c.tip; acceptBlock
\* validates it on c.tip and c.p
NetworkReadTip ==
  /\ pc["network"] = "locked"
  /\ \E field \in {"tip", "p"} : Touch("network", field, FALSE)
  /\ Goto("network", "validated")
  /\ UNCHANGED <<lock, chainVars, ev, aggVars, compVars>>

\* runStateTransition: c.p = &provisionersUpdated
NetworkSetProvisioners ==
  /\ pc["network"] = "validated"
  /\ Touch("network", "p", TRUE)
  /\ Goto("network", "transitioned")
  /\ UNCHANGED <<lock, chainVars, ev, aggVars, compVars>>

\* acceptBlock: c.tip = b, then postAcceptBlock, which starts
\* storeStakesInStormDB on a goroutine of its own when the API is enabled
NetworkSetTip ==
  /\ pc["network"] = "transitioned"
  /\ Touch("network", "tip", TRUE)
  /\ \E apiEnabled \in BOOLEAN :
       pc' = [pc EXCEPT !["network"] = "accepted",
                        !["stakes"] = IF apiEnabled THEN "started" ELSE @]
  /\ UNCHANGED <<lock, chainVars, ev, aggVars, compVars>>

\* ProcessBlockFromNetwork returns, at any of its return statements: the
\* deferred c.lock.Unlock()
NetworkUnlock ==
  /\ pc["network"] \in {"locked", "validated", "transitioned", "accepted"}
  /\ Unlock("network")
  /\ Goto("network", "idle")
  /\ UNCHANGED <<access, chainVars, ev, aggVars, compVars>>

\* ProcessSyncTimerExpired: the log line reading c.tip.Header.Height
TimerReadTip ==
  /\ pc["timer"] = "idle"
  /\ Touch("timer", "tip", FALSE)
  /\ Goto("timer", "logged")
  /\ UNCHANGED <<lock, chainVars, ev, aggVars, compVars>>

\* ProcessSyncTimerExpired: c.lock.Lock()
TimerLock ==
  /\ pc["timer"] = "logged"
  /\ Lock("timer")
  /\ Goto("timer", "locked")
  /\ UNCHANGED <<access, chainVars, ev, aggVars, compVars>>

\* ProcessSyncTimerExpired: RestartConsensus, whose round update reads
\* c.tip and c.p
TimerRestartConsensus ==
  /\ pc["timer"] = "locked"
  /\ \E field \in {"tip", "p"} : Touch("timer", field, FALSE)
  /\ Goto("timer", "restarted")
  /\ UNCHANGED <<lock, chainVars, ev, aggVars, compVars>>

\* ProcessSyncTimerExpired returns: the deferred c.lock.Unlock()
TimerUnlock ==
  /\ pc["timer"] = "restarted"
  /\ Unlock("timer")
  /\ Goto("timer", "idle")
  /\ UNCHANGED <<access, chainVars, ev, aggVars, compVars>>

\* VerifyCandidateBlock: c.lock.Lock()
CandidateLock ==
  /\ pc["candidate"] = "idle"
  /\ Lock("candidate")
  /\ Goto("candidate", "locked")
  /\ UNCHANGED <<access, chainVars, ev, aggVars, compVars>>

\* VerifyCandidateBlock: chainTip = c.tip.Copy()
CandidateCopyTip ==
  /\ pc["candidate"] = "locked"
  /\ Touch("candidate", "tip", FALSE)
  /\ Goto("candidate", "copied")
  /\ UNCHANGED <<lock, chainVars, ev, aggVars, compVars>>

\* VerifyCandidateBlock: c.lock.Unlock(); the checks that follow work on the copy
CandidateUnlock ==
  /\ pc["candidate"] = "copied"
  /\ Unlock("candidate")
  /\ Goto("candidate", "idle")
  /\ UNCHANGED <<access, chainVars, ev, aggVars, compVars>>

\* CalculateSyncProgress: c.lock.RLock()
ProgressRLock ==
  /\ pc["progress"] = "idle"
  /\ RLock("progress")
  /\ Goto("progress", "locked")
  /\ UNCHANGED <<access, chainVars, ev, aggVars, compVars>>

\* CalculateSyncProgress: c.tip.Header.Height
ProgressReadTip ==
  /\ pc["progress"] = "locked"
  /\ Touch("progress", "tip", FALSE)
  /\ Goto("progress", "read")
  /\ UNCHANGED <<lock, chainVars, ev, aggVars, compVars>>

\* CalculateSyncProgress returns: the deferred c.lock.RUnlock()
ProgressRUnlock ==
  /\ pc["progress"] \in {"locked", "read"}
  /\ RUnlock("progress")
  /\ Goto("progress", "idle")
  /\ UNCHANGED <<access, chainVars, ev, aggVars, compVars>>

\* storeStakesInStormDB: c.p.Members and c.p.Set
StakesReadProvisioners ==
  /\ pc["stakes"] = "started"
  /\ Touch("stakes", "p", FALSE)
  /\ Goto("stakes", "idle")
  /\ UNCHANGED <<lock, chainVars, ev, aggVars, compVars>>

(***************************************************************************)
(* Score Selector (selection/selector.go).  The listeners of the component *)
(* are called one at a time by the round's dispatcher; the timer runs      *)
(* publishBestEvent on a goroutine of its own, so it can fall between the  *)
(* two halves of Process: before and after the call of Verify.             *)
(***************************************************************************)
\* the highest score of a Score message
MaxScore == 2

\* the longest selection timeout reached
MaxTimeout == 4

\* the timeout handed to NewComponent
InitialTimeout == 1

\* the threshold of a new ScoreHandler
InitialThreshold == 2

\* a nil byte slice
NilHash == -1

\* make([]byte, 32)
ZeroHash == 0

\* Score{}
emptyScore == [Score |-> 0, VoteHash |-> NilHash, valid |-> FALSE]

\* the Score messages of a round: per score two with a valid proof and one
\* whose proof does not verify; the vote hash identifies the message
Scores ==
  {[Score |-> sc, VoteHash |-> 10 * sc + k, valid |-> k # 3] : sc \in 1..MaxScore, k \in 1..3}

\* NewScoreHandler
NewScoreHandler == [threshold |-> InitialThreshold]

\* Handler.Priority: the first score has priority over the second when it
\* is higher or, on equal scores, when its vote hash is not the higher one
Priority(first, second) ==
  \/ first.Score > second.Score
  \/ first.Score = second.Score /\ first.VoteHash <= second.VoteHash

\* Handler.Verify: the score reaches the threshold and its proof verifies
Verify(h, e) ==
  IF e.Score < h.threshold THEN "score below threshold"
  ELSE IF ~e.valid THEN "proof verification failed"
  ELSE Nil

\* Handler.LowerThreshold
LowerThreshold(h) == [h EXCEPT !.threshold = @ \div 2]

NoProcess == [running |-> FALSE, ev |-> emptyScore, bestEvent |-> emptyScore]

\* NewComponent followed by Initialize.  Beside the fields of the struct:
\* process is the call of Process under way with its local bestEvent,
\* verified the scores that passed Verify since the generation event, sent
\* the messages handed to the signer since then, err the last error
\* Process returned, replaced the timeout and the threshold of the selector
\* of the round before.
NewComponent(timeout) ==
  [bestEvent |-> emptyScore, handler |-> NewScoreHandler, timeout |-> timeout,
   timer |-> "stopped", op |-> "Initialize", process |-> NoProcess,
   verified |-> {}, sent |-> <<>>, err |-> Nil,
   replaced |-> [timeout |-> 0, threshold |-> 0]]

getBestEvent(s) == s.bestEvent

setBestEvent(s, e) == [s EXCEPT !.bestEvent = e]

\* Selector.CollectGeneration: the best event is emptied, the queued events
\* are played and the timer is started
CollectGeneration(s) ==
  [setBestEvent(s, emptyScore) EXCEPT !.timer = "running", !.op = "CollectGeneration",
                                      !.verified = {}, !.sent = <<>>, !.err = Nil]

\* Process taking every score as the new best
ProcessSwapAlways(s, e) ==
  [setBestEvent(s, e) EXCEPT !.op = "Process", !.err = Nil,
                             !.process = [running |-> TRUE, ev |-> e,
                                          bestEvent |-> getBestEvent(s)]]

\* Selector.Process up to the call of Verify: the priority check and the
\* swap of the best event
ProcessSwap(s, e) ==
  IF getBestEvent(s) # emptyScore /\ Priority(getBestEvent(s), e)
  THEN [s EXCEPT !.op = "Process", !.err = Nil]
  ELSE [setBestEvent(s, e) EXCEPT !.op = "Process", !.err = Nil,
                                  !.process = [running |-> TRUE, ev |-> e,
                                               bestEvent |-> getBestEvent(s)]]

\* Selector.repropagate
repropagate(s, e, marshalFails) ==
  IF marshalFails THEN [s |-> s, err |-> "marshal"]
  ELSE [s |-> [s EXCEPT !.sent = Append(@, [topic |-> "Score", hash |-> e.VoteHash])],
        err |-> Nil]

\* Process keeping the score whose verification failed
ProcessVerifyNoRevert(s, marshalFails) ==
  LET Repropagated(r) ==
        IF r.err # Nil THEN [setBestEvent(r.s, s.process.bestEvent) EXCEPT !.err = r.err]
        ELSE [r.s EXCEPT !.verified = @ \cup {s.process.ev}]
      Verified(s1, err) ==
        IF err # Nil THEN [s1 EXCEPT !.err = err]
        ELSE Repropagated(repropagate(s1, s.process.ev, marshalFails))
  IN Verified([s EXCEPT !.process = NoProcess, !.op = "Process"],
              Verify(s.handler, s.process.ev))

\* Selector.Process from the call of Verify on
ProcessVerify(s, marshalFails) ==
  LET Repropagated(r) ==
        IF r.err # Nil THEN [setBestEvent(r.s, s.process.bestEvent) EXCEPT !.err = r.err]
        ELSE [r.s EXCEPT !.verified = @ \cup {s.process.ev}]
      Verified(s1, err) ==
        IF err # Nil THEN [setBestEvent(s1, s.process.bestEvent) EXCEPT !.err = err]
        ELSE Repropagated(repropagate(s1, s.process.ev, marshalFails))
  IN Verified([s EXCEPT !.process = NoProcess, !.op = "Process"],
              Verify(s.handler, s.process.ev))

\* Selector.IncreaseTimeOut
IncreaseTimeOut(s) == [s EXCEPT !.timeout = @ * 2]

\* publishBestEvent leaving timeout and threshold as they are
publishBestEventOnly(s) ==
  [s EXCEPT !.sent = Append(@, [topic |-> "BestScore",
                                hash |-> IF getBestEvent(s) = emptyScore THEN ZeroHash
                                         ELSE getBestEvent(s).VoteHash]),
            !.timer = "stopped", !.op = "publishBestEvent"]

\* Selector.publishBestEvent, run by the timer when it fires
publishBestEvent(s) ==
  IncreaseTimeOut(
    [s EXCEPT !.sent = Append(@, [topic |-> "BestScore",
                                  hash |-> IF getBestEvent(s) = emptyScore THEN ZeroHash
                                           ELSE getBestEvent(s).VoteHash]),
              !.handler = LowerThreshold(@),
              !.timer = "stopped", !.op = "publishBestEvent"])

InitSelector == selector = NewComponent(InitialTimeout)

\* the generation event of an iteration reaches the selector
Generation ==
  /\ selector.timer = "stopped"
  /\ ~selector.process.running
  /\ 2 * selector.timeout <= MaxTimeout
  /\ selector' = CollectGeneration(selector)
  /\ UNCHANGED <<chainVars, ev, aggVars, lockVars, agreement, reduction, detector, peerVars>>

\* a Score message is played to the selector, which runs Process up to Verify
ScoreReceived ==
  /\ selector.timer = "running"
  /\ ~selector.process.running
  /\ \E e \in Scores : selector' = ProcessSwap(selector, e)
  /\ UNCHANGED <<chainVars, ev, aggVars, lockVars, agreement, reduction, detector, peerVars>>

\* Verify returns and Process runs to its end
ScoreVerified ==
  /\ selector.process.running
  /\ \E marshalFails \in BOOLEAN : selector' = ProcessVerify(selector, marshalFails)
  /\ UNCHANGED <<chainVars, ev, aggVars, lockVars, agreement, reduction, detector, peerVars>>

\* the selection timer fires
SelectionTimeout ==
  /\ selector.timer = "running"
  /\ selector' = publishBestEvent(selector)
  /\ UNCHANGED <<chainVars, ev, aggVars, lockVars, agreement, reduction, detector, peerVars>>

\* a block was accepted: the round's components are finalized and the new
\* round's selector is made by NewComponent and Initialize
SelectorNewRound ==
  /\ ~selector.process.running
  /\ selector.op # "Initialize"
  /\ selector' = [NewComponent(InitialTimeout) EXCEPT
                    !.replaced = [timeout |-> selector.timeout,
                                  threshold |-> selector.handler.threshold]]
  /\ UNCHANGED <<chainVars, ev, aggVars, lockVars, agreement, reduction, detector, peerVars>>

(***************************************************************************)
(* agreement component (agreement/agreement.go)                            *)
(***************************************************************************)
\* the rounds the agreement component is initialized for
MaxRounds == 2

\* the results the accumulator delivers in one round
MaxResults == 2

\* the Agreement messages of a result, by the block hash they carry
Agreements == {[BlockHash |-> h] : h \in VoteHashes}

\* what the accumulator sends on CollectedVotesChan: the agreements that
\* reached the quorum, at least one
CollectedVotes == {<<a>> : a \in Agreements} \cup {<<a, b>> : a, b \in Agreements}

\* newComponent and Initialize for round r: a new accumulator, and listen
\* started on a goroutine.  results holds what the accumulator has sent in
\* the round, published what the component has published in it.
newComponent(r) ==
  [Round |-> r, CollectedVotesChan |-> <<>>, listening |-> TRUE, results |-> <<>>,
   published |-> <<>>, err |-> Nil]

\* agreement.publishAgreement
publishAgreement(a, aev, marshalFails) ==
  IF marshalFails THEN [a EXCEPT !.err = "could not marshal agreement event"]
  ELSE [a EXCEPT !.published = @ \o <<[topic |-> "AgreementEvent", hash |-> aev.BlockHash],
                                      [topic |-> "WinningBlockHash", hash |-> aev.BlockHash]>>]

\* listen going back to the channel after it has published a result
listenLoop(a, marshalFails) ==
  publishAgreement([a EXCEPT !.CollectedVotesChan = Tail(@)],
                   Head(a.CollectedVotesChan)[1], marshalFails)

\* agreement.listen: one receive from the accumulator's channel, then the
\* goroutine ends
listen(a, marshalFails) ==
  publishAgreement([a EXCEPT !.CollectedVotesChan = Tail(@), !.listening = FALSE],
                   Head(a.CollectedVotesChan)[1], marshalFails)

InitAgreement == agreement = newComponent(1)

\* the accumulator sends a result on CollectedVotesChan
AccumulatorCollected ==
  /\ Len(agreement.results) < MaxResults
  /\ \E evs \in CollectedVotes :
       agreement' = [agreement EXCEPT !.CollectedVotesChan = Append(@, evs),
                                      !.results = Append(@, evs)]
  /\ UNCHANGED <<chainVars, ev, aggVars, lockVars, selector, reduction, detector, peerVars>>

\* the listen goroutine receives a result
AgreementListen ==
  /\ agreement.listening
  /\ agreement.CollectedVotesChan # <<>>
  /\ \E marshalFails \in BOOLEAN : agreement' = listen(agreement, marshalFails)
  /\ UNCHANGED <<chainVars, ev, aggVars, lockVars, selector, reduction, detector, peerVars>>

\* the round ends: the component of the next round is made and initialized
AgreementNewRound ==
  /\ agreement.Round < MaxRounds
  /\ agreement' = newComponent(agreement.Round + 1)
  /\ UNCHANGED <<chainVars, ev, aggVars, lockVars, selector, reduction, detector, peerVars>>

(***************************************************************************)
(* The two reduction steps of one iteration (reduction/firststep,          *)
(* reduction/secondstep), each collecting its votes in an Aggregator.      *)
(***************************************************************************)
\* the seats of the committee of a reduction step
StepCommittee == [m \in Members |-> IF m = 1 THEN 2 ELSE 1]

\* the hash and the StepVotes a step hands to the next one after a timeout
EmptyStepVotes == [hash |-> ZeroHash, StepVotes |-> NewStepVotes]

NoAgreement == [hash |-> ZeroHash, votes |-> <<>>]

\* the iteration before its first step: step is the step Run was called for
\* last, a its Aggregator, sent what Run has sent on gossip, stepVotes what
\* the steps ended so far handed on, ended how each of them ended, ret what
\* the last Run returned, agreement the Agreement the second step published
NewIteration ==
  [step |-> 0, running |-> FALSE, cancelled |-> FALSE, a |-> NewAggregator(StepCommittee),
   sent |-> <<>>, stepVotes |-> <<>>, ended |-> <<>>, ret |-> "none",
   agreement |-> NoAgreement]

\* Run entered without the node's own vote being sent
StepRunSilent(r, hash) ==
  [r EXCEPT !.step = r.step + 1, !.running = TRUE, !.a = NewAggregator(StepCommittee),
            !.sent = <<>>, !.ret = "none"]

\* Run of a reduction step is entered: a new Aggregator, and the node's own
\* Reduction vote for hash sent on gossip
StepRun(r, hash) ==
  [r EXCEPT !.step = r.step + 1, !.running = TRUE, !.a = NewAggregator(StepCommittee),
            !.sent = <<[topic |-> "Reduction", hash |-> hash]>>, !.ret = "none"]

\* the second step ends: both StepVotes are bundled into an Agreement, which
\* is published when both are non-empty and for the same block hash
sendAgreement(r) ==
  IF /\ r.step = 2
     /\ r.stepVotes[1].StepVotes # NewStepVotes
     /\ r.stepVotes[2].StepVotes # NewStepVotes
     /\ r.stepVotes[1].hash = r.stepVotes[2].hash
  THEN [r EXCEPT !.agreement = [hash |-> r.stepVotes[2].hash,
                                votes |-> <<r.stepVotes[1].StepVotes, r.stepVotes[2].StepVotes>>],
                 !.sent = Append(@, [topic |-> "Agreement", hash |-> r.stepVotes[2].hash])]
  ELSE r

\* a step ends and hands sv to the next phase
EndStep(r, sv, how) ==
  sendAgreement([r EXCEPT !.running = FALSE, !.stepVotes = Append(@, sv),
                          !.ended = Append(@, how), !.ret = "next"])

\* a timed-out step handing on the votes it has collected for hash
StepTimeoutKeepingVotes(r, hash) ==
  EndStep(r, IF hash \in DOMAIN r.a.voteSets
             THEN [hash |-> hash, StepVotes |-> r.a.voteSets[hash].StepVotes]
             ELSE EmptyStepVotes, "timeout")

\* the step's timeout fires
StepTimeout(r, hash) == EndStep(r, EmptyStepVotes, "timeout")

\* the step forwards the Reduction message e of a committee member to its
\* Aggregator and ends when CollectVote returns a Result
StepCollect(r, e) ==
  LET Collected(c) ==
        IF c.result.kind = "result"
        THEN EndStep([r EXCEPT !.a = c.a],
                     [hash |-> c.result.hash, StepVotes |-> c.result.StepVotes], "quorum")
        ELSE [r EXCEPT !.a = c.a]
  IN Collected(CollectVote(r.a, e))

InitReduction == reduction = NewIteration

\* the consensus loop runs the next reduction step of the iteration: the
\* first on the selector's best hash, the second on the hash the first
\* handed on
ReductionRun ==
  /\ ~reduction.running
  /\ ~reduction.cancelled
  /\ Len(reduction.stepVotes) = reduction.step
  /\ reduction.step < 2
  /\ \E hash \in IF reduction.step = 0 THEN VoteHashes \cup {ZeroHash}
                 ELSE {reduction.stepVotes[1].hash} :
       reduction' = StepRun(reduction, hash)
  /\ UNCHANGED <<chainVars, ev, aggVars, lockVars, selector, agreement, detector, peerVars>>

\* a Reduction message of a committee member that has not voted for the
\* hash in this step reaches the step
ReductionReceived ==
  /\ reduction.running
  /\ ~reduction.cancelled
  /\ \E sender \in Members, hash \in VoteHashes :
       /\ hash \in DOMAIN reduction.a.voteSets =>
            sender \notin reduction.a.voteSets[hash].StepVotes.Apk
       /\ reduction' = StepCollect(reduction, [sender |-> sender, hash |-> hash])
  /\ UNCHANGED <<chainVars, ev, aggVars, lockVars, selector, agreement, detector, peerVars>>

\* the step's timer fires
ReductionTimeout ==
  /\ reduction.running
  /\ ~reduction.cancelled
  /\ \E hash \in VoteHashes : reduction' = StepTimeout(reduction, hash)
  /\ UNCHANGED <<chainVars, ev, aggVars, lockVars, selector, agreement, detector, peerVars>>

\* the context of the round is cancelled
ReductionCancel ==
  /\ reduction.step > 0
  /\ ~reduction.cancelled
  /\ reduction' = [reduction EXCEPT !.cancelled = TRUE]
  /\ UNCHANGED <<chainVars, ev, aggVars, lockVars, selector, agreement, detector, peerVars>>

\* Run finds its context cancelled and returns nil
ReductionReturn ==
  /\ reduction.running
  /\ reduction.cancelled
  /\ reduction' = [reduction EXCEPT !.running = FALSE, !.ret = "nil"]
  /\ UNCHANGED <<chainVars, ev, aggVars, lockVars, selector, agreement, detector, peerVars>>

\* the next iteration begins
ReductionNewIteration ==
  /\ ~reduction.running
  /\ reduction.cancelled \/ Len(reduction.stepVotes) = 2
  /\ reduction' = NewIteration
  /\ UNCHANGED <<chainVars, ev, aggVars, lockVars, selector, agreement, detector, peerVars>>

(***************************************************************************)
(* The stall detector of a peer (pkg/p2p/peer/stall).                      *)
(***************************************************************************)
\* the clock runs from 0 to MaxTime
MaxTime == 2

\* the goroutines of the peer that call Quit, besides the detector's loop
MaxQuitters == 1

\* responseTime, in clock units
ResponseTime == 1

Quitters == 1..MaxQuitters

\* the goroutines that call Quit: the detector's loop (0) and the peer's
LoopCaller == 0

Callers == {LoopCaller} \cup Quitters

\* the commands the peer sends, "Inv" standing for those without a reply
SentCmds == {"GetData", "GetBlocks", "Inv"}

\* the commands the peer receives
ReceivedCmds == {"Block", "Tx", "NotFound", "Inv"}

NoCmd == "none"

\* the replies expected for a command sent
addMessage(cmd) ==
  CASE cmd = "GetHeaders" -> {"Headers"}
    [] cmd = "GetAddr" -> {"Addr"}
    [] cmd = "GetData" -> {"Block", "Tx", "NotFound"}
    [] cmd = "GetBlocks" -> {"Inv"}
    [] cmd = "Version" -> {"VerAck"}
    [] OTHER -> {}

\* the pending replies a received command answers
removeMessage(cmd) ==
  CASE cmd = "Block" -> {"Block", "Tx", "NotFound"}
    [] cmd = "Tx" -> {"Block", "Tx", "NotFound"}
    [] OTHER -> {cmd}

NoLast == [op |-> "none", cmd |-> NoCmd, r |-> NoCmd, before |-> <<>>]

\* NewDetector: responses is the map of the pending replies to their
\* deadlines, disconnected the atomic counter, closed whether Quitch is
\* closed, panicked whether a goroutine has panicked, loop where the loop
\* goroutine is, quit where each caller of Quit is; now is the clock; last
\* is the last call of AddMessage or RemoveMessage
NewDetector ==
  [responses |-> <<>>, disconnected |-> 0, closed |-> FALSE, panicked |-> FALSE,
   loop |-> "ticker", quit |-> [g \in Callers |-> "idle"], now |-> 0, last |-> NoLast]

\* Detector.AddMessage
AddMessage(d, cmd) ==
  [d EXCEPT !.responses = [r \in DOMAIN d.responses \cup addMessage(cmd) |->
                             IF r \in addMessage(cmd) THEN d.now + ResponseTime
                             ELSE d.responses[r]],
            !.last = [op |-> "AddMessage", cmd |-> cmd, r |-> NoCmd, before |-> d.responses]]

\* Detector.RemoveMessage
RemoveMessage(d, cmd) ==
  [d EXCEPT !.responses = [r \in DOMAIN d.responses \ removeMessage(cmd) |-> d.responses[r]],
            !.last = IF d.last.op = "AddMessage"
                     THEN [d.last EXCEPT !.op = "AddRemove", !.r = cmd]
                     ELSE [NoLast EXCEPT !.op = "RemoveMessage", !.r = cmd]]

\* Detector.DeleteAll
DeleteAll(d) == [d EXCEPT !.responses = <<>>, !.last = NoLast]

\* a deadline of the map has passed: now.After(deadline)
DeadlinePassed(d) == \E r \in DOMAIN d.responses : d.now > d.responses[r]

\* one pass of the loop on a tick: it breaks out when a deadline has passed
loopTick(d) ==
  IF DeadlinePassed(d) THEN [d EXCEPT !.loop = "Quit", !.quit[LoopCaller] = "load"]
  ELSE d

\* Quit: the load of disconnected; the call returns if it is not 0
QuitLoad(d, g) ==
  [d EXCEPT !.quit[g] = IF d.disconnected # 0 THEN "returned" ELSE "add"]

\* Quit: atomic.AddInt32(&d.disconnected, 1)
QuitAdd(d, g) == [d EXCEPT !.disconnected = @ + 1, !.quit[g] = "close"]

\* Quit: close(d.Quitch), which panics on a closed channel
QuitClose(d, g) ==
  IF d.closed THEN [d EXCEPT !.panicked = TRUE, !.quit[g] = "panic"]
  ELSE [d EXCEPT !.closed = TRUE, !.quit[g] = "returned"]

\* where a goroutine inside Quit can be
InQuit == {"load", "add", "close"}

\* the next step of the call of Quit by g
Quit(d, g) ==
  CASE d.quit[g] = "load" -> QuitLoad(d, g)
    [] d.quit[g] = "add" -> QuitAdd(d, g)
    [] d.quit[g] = "close" -> QuitClose(d, g)

InitDetector == detector = NewDetector

\* the peer sends a command
DetectorAddMessage ==
  /\ ~detector.panicked
  /\ \E cmd \in SentCmds : detector' = AddMessage(detector, cmd)
  /\ UNCHANGED <<chainVars, ev, aggVars, lockVars, selector, agreement, reduction, peerVars>>

\* the peer receives a command
DetectorRemoveMessage ==
  /\ ~detector.panicked
  /\ \E cmd \in ReceivedCmds : detector' = RemoveMessage(detector, cmd)
  /\ UNCHANGED <<chainVars, ev, aggVars, lockVars, selector, agreement, reduction, peerVars>>

\* time passes
DetectorClock ==
  /\ ~detector.panicked
  /\ detector.now < MaxTime
  /\ detector' = [detector EXCEPT !.now = @ + 1]
  /\ UNCHANGED <<chainVars, ev, aggVars, lockVars, selector, agreement, reduction, peerVars>>

\* the ticker of the loop fires
DetectorTick ==
  /\ ~detector.panicked
  /\ detector.loop = "ticker"
  /\ detector' = loopTick(detector)
  /\ UNCHANGED <<chainVars, ev, aggVars, lockVars, selector, agreement, reduction, peerVars>>

\* a goroutine of the peer calls Quit
DetectorQuitCall ==
  /\ ~detector.panicked
  /\ \E g \in Quitters :
       /\ detector.quit[g] \in {"idle", "returned"}
       /\ detector' = [detector EXCEPT !.quit[g] = "load"]
  /\ UNCHANGED <<chainVars, ev, aggVars, lockVars, selector, agreement, reduction, peerVars>>

\* a goroutine of the peer goes on in Quit
DetectorQuit ==
  /\ ~detector.panicked
  /\ \E g \in Quitters :
       /\ detector.quit[g] \in InQuit
       /\ detector' = Quit(detector, g)
  /\ UNCHANGED <<chainVars, ev, aggVars, lockVars, selector, agreement, reduction, peerVars>>

\* the loop goes on in Quit
DetectorLoopQuit ==
  /\ ~detector.panicked
  /\ detector.quit[LoopCaller] \in InQuit
  /\ detector' = Quit(detector, LoopCaller)
  /\ UNCHANGED <<chainVars, ev, aggVars, lockVars, selector, agreement, reduction, peerVars>>

\* the loop, back from Quit, empties the map and ends
DetectorDeleteAll ==
  /\ ~detector.panicked
  /\ detector.loop = "Quit"
  /\ detector.quit[LoopCaller] = "returned"
  /\ detector' = [DeleteAll(detector) EXCEPT !.loop = "done"]
  /\ UNCHANGED <<chainVars, ev, aggVars, lockVars, selector, agreement, reduction, peerVars>>

(***************************************************************************)
(* The MessageProcessor of a peer and its duplicate filter                 *)
(* (pkg/p2p/peer/processor.go, pkg/p2p/peer/dupemap).                      *)
(***************************************************************************)
\* the heights the filter is advanced to
MaxFilterHeight == 3

\* the tolerance of the filter, in heights
defaultTolerance == 1

\* the ids of the messages, and the payloads handed to the filter
MsgIds == 1..3

\* the fingerprint the filter keeps of a payload: two payloads can share it
Xxhash(payload) == payload % 2

Topics == {"Tx", "Score", "Block", "Inv"}

\* the topics a ProcessorFunc is registered for
Registered == {"Tx", "Block"}

Messages == [topic : Topics, id : MsgIds]

\* NewDupeMap: no bucket yet
NewDupeMap(round) == [height |-> round, tolerance |-> defaultTolerance, msgSets |-> <<>>]

\* the heights whose buckets the filter keeps at height
Window(d, height) == {h \in 0..height : h >= height - d.tolerance}

\* DupeMap.CanFwd without the insertion
CanFwdNoInsert(d, payload) ==
  [d |-> d, ok |-> \A h \in DOMAIN d.msgSets : Xxhash(payload) \notin d.msgSets[h]]

\* DupeMap.CanFwd looking only at the bucket of the current height
CanFwdCurrentOnly(d, payload) ==
  IF d.height \in DOMAIN d.msgSets /\ Xxhash(payload) \in d.msgSets[d.height]
  THEN [d |-> d, ok |-> FALSE]
  ELSE [d |-> [d EXCEPT !.msgSets =
                 [h \in DOMAIN d.msgSets \cup {d.height} |->
                    IF h = d.height
                    THEN (IF h \in DOMAIN d.msgSets THEN d.msgSets[h] ELSE {})
                           \cup {Xxhash(payload)}
                    ELSE d.msgSets[h]]],
        ok |-> TRUE]

\* DupeMap.CanFwd: whether no bucket holds the payload, which is then put
\* into the bucket of the current height
CanFwd(d, payload) ==
  IF \E h \in DOMAIN d.msgSets : Xxhash(payload) \in d.msgSets[h]
  THEN [d |-> d, ok |-> FALSE]
  ELSE [d |-> [d EXCEPT !.msgSets =
                 [h \in DOMAIN d.msgSets \cup {d.height} |->
                    IF h = d.height
                    THEN (IF h \in DOMAIN d.msgSets THEN d.msgSets[h] ELSE {})
                           \cup {Xxhash(payload)}
                    ELSE d.msgSets[h]]],
        ok |-> TRUE]

\* DupeMap.UpdateHeight keeping every bucket
UpdateHeightKeepingAll(d, height) ==
  IF height > d.height THEN [d EXCEPT !.height = height] ELSE d

\* DupeMap.UpdateHeight: the buckets outside the window of the new height
\* are dropped
UpdateHeight(d, height) ==
  IF height > d.height
  THEN [d EXCEPT !.height = height,
                 !.msgSets = [h \in DOMAIN d.msgSets \cap Window(d, height) |-> d.msgSets[h]]]
  ELSE d

\* MessageProcessor.CanRoute
CanRoute(topic) ==
  topic \in {"Tx", "Candidate", "Score", "Reduction", "Agreement", "GetCandidate",
             "RoundResults"}

NoOutcome == [invoked |-> FALSE, err |-> Nil, resp |-> <<>>, checked |-> FALSE, ok |-> FALSE]

\* process handing every message to its processor before the filter is asked
processUnfiltered(m, msg, fails) ==
  IF msg.topic \notin Registered THEN [m |-> m, out |-> NoOutcome]
  ELSE [m |-> [m EXCEPT !.dupeMap = IF CanRoute(msg.topic) THEN CanFwd(@, msg.id).d ELSE @],
        out |-> [NoOutcome EXCEPT !.invoked = TRUE,
                                  !.err = IF fails THEN "processing failed" ELSE Nil,
                                  !.resp = IF fails THEN <<>> ELSE <<msg.id>>,
                                  !.checked = CanRoute(msg.topic),
                                  !.ok = CanFwd(m.dupeMap, msg.id).ok]]

\* MessageProcessor.process.  out tells whether the ProcessorFunc was
\* invoked, the error returned, the buffers sent on respChan, and whether
\* CanFwd was called and what it returned
process(m, msg, fails) ==
  LET Routed(m1, out) ==
        IF msg.topic \notin Registered THEN [m |-> m1, out |-> out]
        ELSE [m |-> m1,
              out |-> [out EXCEPT !.invoked = TRUE,
                                  !.err = IF fails THEN "processing failed" ELSE Nil,
                                  !.resp = IF fails THEN <<>> ELSE <<msg.id>>]]
      Filtered(r) ==
        IF ~r.ok THEN [m |-> [m EXCEPT !.dupeMap = r.d],
                       out |-> [NoOutcome EXCEPT !.checked = TRUE]]
        ELSE Routed([m EXCEPT !.dupeMap = r.d],
                    [NoOutcome EXCEPT !.checked = TRUE, !.ok = TRUE])
  IN IF CanRoute(msg.topic) THEN Filtered(CanFwd(m.dupeMap, msg.id))
     ELSE Routed(m, NoOutcome)

\* NewMessageProcessor.  fwd holds the calls of CanFwd that returned true:
\* the payload, the height and what became of the message; last is the last call of
\* process, prior what became of the earlier messages of its id that
\* arrived within the window
NewMessageProcessor ==
  [dupeMap |-> NewDupeMap(1), fwd |-> {},
   last |-> [msg |-> [topic |-> "none", id |-> 0], out |-> NoOutcome, prior |-> {}]]

InitProcessor == processor = NewMessageProcessor

\* a message arrives from the peer
ProcessorCollect ==
  /\ \E msg \in Messages, fails \in BOOLEAN :
       LET Done(r) ==
             processor' =
               [r.m EXCEPT
                  !.fwd = IF r.out.checked /\ r.out.ok
                          THEN @ \cup {[id |-> msg.id, height |-> processor.dupeMap.height,
                                        invoked |-> r.out.invoked, err |-> r.out.err]}
                          ELSE @,
                  !.last = [msg |-> msg, out |-> r.out,
                            prior |-> {e \in processor.fwd :
                                         /\ e.id = msg.id
                                         /\ e.height \in Window(processor.dupeMap,
                                                                processor.dupeMap.height)}]]
       IN Done(process(processor, msg, fails))
  /\ UNCHANGED <<chainVars, ev, aggVars, lockVars, selector, agreement, reduction, detector,
                 mempool, listener>>

\* a block is accepted: the filter is advanced to its height
ProcessorUpdateHeight ==
  /\ \E height \in 1..MaxFilterHeight :
       /\ height > processor.dupeMap.height
       /\ processor' = [processor EXCEPT !.dupeMap = UpdateHeight(@, height)]
  /\ UNCHANGED <<chainVars, ev, aggVars, lockVars, selector, agreement, reduction, detector,
                 mempool, listener>>

(***************************************************************************)
(* The Mempool (pkg/core/mempool).  Sizes are counted in units of 2^30     *)
(* bytes, so that the 32-bit running total of a request wraps at Uint32.   *)
(***************************************************************************)
\* 2^32 bytes, in units of 2^30 bytes
Uint32 == 4

ErrCoinbaseTxNotAllowed == "coinbase tx not allowed"

ErrAlreadyExists == "already exists"

\* the transactions submitted: txid, type, whether the verifier accepts
\* them, fee and size
TxDescs ==
  {[id |-> 1, type |-> "Tx", valid |-> TRUE, fee |-> 5, size |-> 2],
   [id |-> 2, type |-> "Bid", valid |-> TRUE, fee |-> 4, size |-> 2],
   [id |-> 3, type |-> "Tx", valid |-> TRUE, fee |-> 3, size |-> 1],
   [id |-> 4, type |-> "Tx", valid |-> FALSE, fee |-> 2, size |-> 1],
   [id |-> 5, type |-> "Distribute", valid |-> TRUE, fee |-> 0, size |-> 1]}

\* the transactions of a block: its coinbase and some of the others, or none
BlockTxs == {{}} \cup {txs \cup {t \in TxDescs : t.type = "Distribute"} :
                        txs \in SUBSET {t \in TxDescs : t.type # "Distribute" /\ t.valid}}

\* the outcomes of the calls processTx makes
MempoolFaults == {"none", "hash", "store"}

\* Pool.Contains on the HashMap, which is kept sorted by fee
Contains(pool, txid) == \E i \in DOMAIN pool : pool[i].id = txid

\* Pool.Put: the transaction takes its place among the fees
PoolPut(pool, t) ==
  LET before == SelectSeq(pool, LAMBDA u : u.fee >= t.fee)
      after == SelectSeq(pool, LAMBDA u : u.fee < t.fee)
  IN before \o <<t>> \o after

\* merkletree.NewTree, which refuses an empty list of payloads
NewTree(payloads) ==
  IF payloads = {} THEN [err |-> "cannot construct tree with no content", tree |-> {}]
  ELSE [err |-> Nil, tree |-> payloads]

\* MerkleTree.VerifyContent
VerifyContent(tree, tx) == tx \in tree

\* Mempool.checkTx
checkTx(m, tx) == IF tx.valid THEN Nil ELSE "transaction verification failed"

\* processTx without the look-up of the txid in the pool
processTxNoContains(m, t, fault) ==
  IF fault = "hash" THEN [m |-> m, err |-> "hash err"]
  ELSE IF t.type = "Distribute" THEN [m |-> m, err |-> ErrCoinbaseTxNotAllowed]
  ELSE IF checkTx(m, t) # Nil THEN [m |-> m, err |-> "verification"]
  ELSE IF fault = "store" THEN [m |-> m, err |-> "store"]
  ELSE [m |-> [m EXCEPT !.verified = PoolPut(@, t)], err |-> Nil]

\* Mempool.processTx
processTx(m, t, fault) ==
  IF fault = "hash" THEN [m |-> m, err |-> "hash err"]
  ELSE IF t.type = "Distribute" THEN [m |-> m, err |-> ErrCoinbaseTxNotAllowed]
  ELSE IF Contains(m.verified, t.id) THEN [m |-> m, err |-> ErrAlreadyExists]
  ELSE IF checkTx(m, t) # Nil THEN [m |-> m, err |-> "verification"]
  ELSE IF fault = "store" THEN [m |-> m, err |-> "store"]
  ELSE [m |-> [m EXCEPT !.verified = PoolPut(@, t)], err |-> Nil]

\* removeAccepted keeping the transactions of the block
removeAcceptedKeepingBlock(m, txs) ==
  IF Len(m.verified) = 0 THEN m
  ELSE IF NewTree(txs).err # Nil THEN m
  ELSE [m EXCEPT !.verified = SelectSeq(@, LAMBDA t : VerifyContent(NewTree(txs).tree, t))]

\* Mempool.removeAccepted: the new pool takes the transactions that are not
\* in the merkle tree of the block
removeAccepted(m, txs) ==
  IF Len(m.verified) = 0 THEN m
  ELSE IF NewTree(txs).err # Nil THEN m
  ELSE [m EXCEPT !.verified = SelectSeq(@, LAMBDA t : ~VerifyContent(NewTree(txs).tree, t))]

\* Mempool.processGetMempoolTxsBySizeRequest: totalSize is a uint32
processGetMempoolTxsBySizeRequest(m, maxTxsSize) ==
  LET RECURSIVE RangeSort(_, _, _)
      RangeSort(i, totalSize, txs) ==
        IF i > Len(m.verified) THEN txs
        ELSE IF (totalSize + m.verified[i].size) % Uint32 <= maxTxsSize
        THEN RangeSort(i + 1, (totalSize + m.verified[i].size) % Uint32,
                       Append(txs, m.verified[i]))
        ELSE txs
  IN RangeSort(1, 0, <<>>)

NoRequest ==
  [op |-> "none", tx |-> 0, txs |-> {}, max |-> 0, err |-> Nil, result |-> <<>>,
   before |-> <<>>, during |-> "idle"]

\* NewMempool.  verified is the pool in the order of RangeSort; selectTx
\* tells whether a goroutine of the gRPC server is inside SelectTx and view
\* the pool it began to read; last is the last request the Run goroutine
\* handled, with the pool before it and where SelectTx was meanwhile
NewMempool == [verified |-> <<>>, selectTx |-> "idle", view |-> <<>>, last |-> NoRequest]

InitMempool == mempool = NewMempool

\* Run takes a transaction from m.pending or from sendTxChan
MempoolPendingTx ==
  /\ \E t \in TxDescs, fault \in MempoolFaults :
       LET Done(r) ==
             mempool' = [r.m EXCEPT !.last = [NoRequest EXCEPT !.op = "processTx",
                                                !.tx = t.id, !.err = r.err,
                                                !.before = mempool.verified,
                                                !.during = mempool.selectTx]]
       IN Done(processTx(mempool, t, fault))
  /\ UNCHANGED <<chainVars, ev, aggVars, lockVars, selector, agreement, reduction, detector,
                 processor, listener>>

\* Run takes an accepted or an intermediate block: onBlock
MempoolBlock ==
  /\ \E txs \in BlockTxs :
       mempool' = [removeAccepted(mempool, txs) EXCEPT
                     !.last = [NoRequest EXCEPT !.op = "onBlock",
                                 !.txs = {t.id : t \in txs},
                                 !.before = mempool.verified,
                                 !.during = mempool.selectTx]]
  /\ UNCHANGED <<chainVars, ev, aggVars, lockVars, selector, agreement, reduction, detector,
                 processor, listener>>

\* Run takes a GetMempoolTxsBySize request
MempoolTxsBySize ==
  /\ \E maxTxsSize \in 0..(Uint32 - 1) :
       mempool' = [mempool EXCEPT
                     !.last = [NoRequest EXCEPT !.op = "GetMempoolTxsBySize",
                                 !.max = maxTxsSize,
                                 !.result = processGetMempoolTxsBySizeRequest(mempool,
                                                                              maxTxsSize),
                                 !.before = mempool.verified,
                                 !.during = mempool.selectTx]]
  /\ UNCHANGED <<chainVars, ev, aggVars, lockVars, selector, agreement, reduction, detector,
                 processor, listener>>

\* a goroutine of the gRPC server enters SelectTx and begins to read the pool
MempoolSelectTx ==
  /\ mempool.selectTx = "idle"
  /\ mempool' = [mempool EXCEPT !.selectTx = "reading", !.view = mempool.verified]
  /\ UNCHANGED <<chainVars, ev, aggVars, lockVars, selector, agreement, reduction, detector,
                 processor, listener>>

\* SelectTx returns: what it read is the pool as it was or as it is now
MempoolSelectTxReturn ==
  /\ mempool.selectTx = "reading"
  /\ \E view \in {mempool.view, mempool.verified} :
       mempool' = [mempool EXCEPT !.selectTx = "idle", !.view = view]
  /\ UNCHANGED <<chainVars, ev, aggVars, lockVars, selector, agreement, reduction, detector,
                 processor, listener>>

(***************************************************************************)
(* The ChanListener of the event bus (pkg/util/nativeutils/eventbus).      *)
(***************************************************************************)
\* the largest buffer a subscriber gives its channel
MaxCap == 2

\* the number of messages published
MaxNotify == 4

ErrBufferFull == "message channel buffer is full"

\* message.Clone: a copy of the message, or an error for a payload that
\* cannot be copied
Clone(m) ==
  IF m.copyable THEN [err |-> Nil, clone |-> [m EXCEPT !.clone = TRUE]]
  ELSE [err |-> "clone failed", clone |-> m]

\* forward appending to the channel whatever its buffer holds
forwardUnbounded(c, msg) == [c |-> [c EXCEPT !.messageChannel = Append(@, msg)], err |-> Nil]

\* forward: the select with a default case.  The send goes through when a
\* receiver is waiting on the channel or its buffer has room
forward(c, msg) ==
  IF c.receiving
  THEN [c |-> [c EXCEPT !.receiving = FALSE, !.received = Append(@, msg)], err |-> Nil]
  ELSE IF Len(c.messageChannel) < c.cap
  THEN [c |-> [c EXCEPT !.messageChannel = Append(@, msg)], err |-> Nil]
  ELSE [c |-> c, err |-> ErrBufferFull]

\* ChanListener.Notify
Notify(c, m) ==
  IF ~c.safe THEN forward(c, m)
  ELSE IF Clone(m).err # Nil THEN [c |-> c, err |-> Clone(m).err]
  ELSE forward(c, Clone(m).clone)

NoNotify == [n |-> 0, err |-> Nil, room |-> FALSE, waiting |-> FALSE, copyable |-> TRUE]

\* NewChanListener and NewSafeChanListener on a channel of the given
\* capacity.  receiving tells whether the subscriber is blocked receiving
\* from the empty channel, received is what it has taken, n counts the
\* messages published and last describes the last Notify
NewChanListener(cap, safe) ==
  [safe |-> safe, cap |-> cap, messageChannel |-> <<>>, receiving |-> FALSE,
   received |-> <<>>, n |-> 0, last |-> NoNotify]

InitListener == listener = NewChanListener(1, FALSE)

\* a subscriber makes its channel and subscribes a listener on it
ListenerSubscribe ==
  /\ listener.n = 0
  /\ \E cap \in 0..MaxCap, safe \in BOOLEAN : listener' = NewChanListener(cap, safe)
  /\ UNCHANGED <<chainVars, ev, aggVars, lockVars, selector, agreement, reduction, detector,
                 processor, mempool>>

\* the publisher notifies the listener of the next message
ListenerNotify ==
  /\ listener.n < MaxNotify
  /\ \E copyable \in BOOLEAN :
       LET m == [n |-> listener.n + 1, copyable |-> copyable, clone |-> FALSE]
           Done(r) ==
             listener' = [r.c EXCEPT !.n = m.n,
                            !.last = [n |-> m.n, err |-> r.err,
                                      room |-> Len(listener.messageChannel) < listener.cap,
                                      waiting |-> listener.receiving,
                                      copyable |-> copyable]]
       IN Done(Notify(listener, m))
  /\ UNCHANGED <<chainVars, ev, aggVars, lockVars, selector, agreement, reduction, detector,
                 processor, mempool>>

\* the subscriber takes a message from its channel
ListenerReceive ==
  /\ listener.messageChannel # <<>>
  /\ listener' = [listener EXCEPT !.messageChannel = Tail(@),
                                  !.received = Append(@, Head(listener.messageChannel))]
  /\ UNCHANGED <<chainVars, ev, aggVars, lockVars, selector, agreement, reduction, detector,
                 processor, mempool>>

\* the subscriber receives from its empty channel and waits
ListenerWait ==
  /\ listener.messageChannel = <<>>
  /\ ~listener.receiving
  /\ listener' = [listener EXCEPT !.receiving = TRUE]
  /\ UNCHANGED <<chainVars, ev, aggVars, lockVars, selector, agreement, reduction, detector,
                 processor, mempool>>

InitComponents ==
  /\ InitSelector /\ InitAgreement /\ InitReduction /\ InitDetector
  /\ InitProcessor /\ InitMempool /\ InitListener

\* the block store after the genesis block was stored
GenesisStorage == Commit(StoreBlock(Begin(EmptyTables, TRUE), Genesis, FALSE).t)

NoCall == [called |-> FALSE, sender |-> 0, hash |-> 0, result |-> NoResult]

\* chain.New on a fresh node: the tip is the genesis block, which the block
\* store and the executor hold
InitChain ==
  /\ tip = Genesis
  /\ p = Genesis.hash
  /\ storage = GenesisStorage
  /\ rusk = Genesis.stateHash
  /\ highestSeen = 0
  /\ blacklisted = {}
  /\ state = "inSync"
  /\ syncTarget = 0
  /\ loop = NoLoop
  /\ ev = [op |-> "init", err |-> Nil, path |-> "", log |-> <<>>, acc |-> NoAcc,
          sync |-> <<>>]
  /\ InitLock
  /\ InitComponents

\* NewAggregator for a step whose committee holds the seats of `h`
InitAggregator(h) ==
  /\ handler = NewAggregator(h).handler
  /\ voteSets = NewAggregator(h).voteSets
  /\ ret = NoCall
  /\ results = <<>>

Init == InitChain /\ InitAggregator([m \in Members |-> 1])

\* the external call at which a fault strikes
FaultCalls(fault) ==
  CASE fault = "getroot" -> {"GetStateRoot"}
    [] fault = "exec" -> {"Finalize", "Accept"}
    [] fault = "badroot" -> {"Finalize", "Accept"}
    [] fault = "marshal" -> {"StoreBlock"}
    [] fault = "persist" -> {"Persist"}
    [] fault = "revert" -> {"Revert"}
    [] OTHER -> {}

\* a block arrives from the network.  A fault striking a call the fault-free
\* run does not make changes nothing: that step is taken once, as fault-free.
BlockFromNetwork ==
  \E blk \in Blocks :
    LET Take(r) ==
          /\ Install(r.c)
          /\ ev' = [op |-> "block", err |-> r.err, path |-> r.path, log |-> r.c.log,
                    acc |-> r.c.acc, sync |-> <<>>]
          /\ UNCHANGED <<aggVars, lockVars, compVars>>
        Run(r0) ==
          \E fault \in Faults :
            /\ fault = "none" \/ \E i \in DOMAIN r0.c.log : r0.c.log[i] \in FaultCalls(fault)
            /\ IF fault = "none" THEN Take(r0)
               ELSE Take(ProcessBlockFromNetwork(chain, blk, fault))
    IN Run(ProcessBlockFromNetwork(chain, blk, "none"))

\* the sync timer, armed on entering the out-of-sync state, expires
SyncTimerExpired ==
  /\ state = "outSync"
  /\ LET Take(r) ==
           /\ Install(r.c)
           /\ ev' = [op |-> "timer", err |-> r.err, path |-> "", log |-> r.c.log,
                     acc |-> r.c.acc, sync |-> <<>>]
           /\ UNCHANGED <<aggVars, lockVars, compVars>>
     IN Take(ProcessSyncTimerExpired(chain))

\* a bid is stored: db.Update around transaction.StoreBidValues
BidValuesStored ==
  \E lockTime \in LockTimes :
    LET Take(r) ==
          /\ storage' = EndUpdate(r.t, r.err)
          /\ ev' = [op |-> "bid", err |-> r.err, path |-> "", log |-> <<>>, acc |-> NoAcc,
                    sync |-> <<>>]
          /\ UNCHANGED <<tip, p, rusk, highestSeen, blacklisted, state, syncTarget, loop>>
          /\ UNCHANGED <<aggVars, lockVars, compVars>>
    IN Take(StoreBidValues(Begin(storage, TRUE), lockTime))

Next == BlockFromNetwork \/ SyncTimerExpired

\* the chain's handlers
Spec == Init /\ [][Next]_vars

NextStore == BlockFromNetwork \/ SyncTimerExpired \/ BidValuesStored

\* the chain's handlers and the bid store writing to the same database
SpecStore == Init /\ [][NextStore]_vars

\* the reduction step hands the Reduction message of a committee member to
\* its Aggregator; a panic ends the process
Vote ==
  /\ ret.result.kind # "panic"
  /\ \E sender \in {m \in Members : VotesFor(handler, m) > 0}, hash \in VoteHashes :
       LET Take(r) ==
             /\ voteSets' = r.a.voteSets
             /\ ret' = [called |-> TRUE, sender |-> sender, hash |-> hash, result |-> r.result]
             /\ results' = IF r.result.kind = "result" THEN Append(results, r.result.hash)
                            ELSE results
             /\ UNCHANGED <<handler, chainVars, ev, lockVars, compVars>>
       IN Take(CollectVote([handler |-> handler, voteSets |-> voteSets],
                           [sender |-> sender, hash |-> hash]))

InitAgg == InitChain /\ \E h \in [Members -> 0..MaxWeight] : InitAggregator(h)

NextAgg == Vote

\* one Aggregator collecting the votes of one reduction step
SpecAgg == InitAgg /\ [][NextAgg]_vars

\* the faults of a start: those of a handler and a failing Loader.LoadTip
StartupFaults == (Faults \ {"revert"}) \cup {"loadtip"}

\* the chains of blocks a node has accepted and stored: every block passed
\* the checks of acceptBlock on its parent
StoredChains ==
  UNION {{s \in [1..n -> Blocks] :
            \A i \in 1..n :
              /\ s[i].height = i
              /\ isValidBlock(chain, s[i], IF i = 1 THEN Genesis ELSE s[i - 1], TRUE) = Nil} :
         n \in 0..MaxHeight}

\* the block store after the blocks of s were stored on db, one Update each
RECURSIVE StoreChain(_, _)
StoreChain(db, s) ==
  IF s = <<>> THEN db
  ELSE StoreChain(Commit(StoreBlock(Begin(db, TRUE), Head(s), FALSE).t), Tail(s))

\* the node before chain.New: the block store of an earlier run, and the
\* executor holding the state of one of the stored blocks (PersistEvery may
\* have been another value in that run) or a state of no stored block.
\* chain.New takes the provisioners from the executor; the tip is not set.
InitStartup ==
  /\ \E s \in StoredChains : storage = StoreChain(GenesisStorage, s)
  /\ rusk \in {storage.blocksInd[h].stateHash : h \in DOMAIN storage.blocksInd} \cup {BadRoot}
  /\ p = rusk
  /\ tip = [Genesis EXCEPT !.hash = EmptyHash, !.stateHash = EmptyHash]
  /\ highestSeen = 0
  /\ blacklisted = {}
  /\ state = "inSync"
  /\ syncTarget = 0
  /\ loop = NoLoop
  /\ ev = [op |-> "boot", err |-> Nil, path |-> "", log |-> <<>>, acc |-> NoAcc,
           sync |-> <<>>]
  /\ InitAggregator([m \in Members |-> 1])
  /\ InitLock
  /\ InitComponents

\* chain.New calls syncWithRusk
Startup ==
  /\ ev.op = "boot"
  /\ \E persistedHash \in DOMAIN storage.blocksInd, fault \in StartupFaults, at \in 0..MaxHeight :
       LET Take(r) ==
             /\ Install(r.c)
             /\ ev' = [op |-> "startup", err |-> r.err, path |-> "", log |-> r.c.log,
                       acc |-> r.c.acc, sync |-> r.sync]
             /\ UNCHANGED <<aggVars, lockVars, compVars>>
       IN /\ fault \in {"none", "loadtip"} => at = 0
          /\ fault \in {"exec", "badroot", "marshal", "persist"} => at > 0
          /\ Take(syncWithRusk(chain, persistedHash, fault, at))

NextStartup == Startup

\* the start of a node on the block store and the executor of an earlier run
SpecStartup == InitStartup /\ [][NextStartup]_vars

NextLock ==
  \/ NetworkLock \/ NetworkReadTip \/ NetworkSetProvisioners \/ NetworkSetTip
  \/ NetworkUnlock
  \/ TimerReadTip \/ TimerLock \/ TimerRestartConsensus \/ TimerUnlock
  \/ CandidateLock \/ CandidateCopyTip \/ CandidateUnlock
  \/ ProgressRLock \/ ProgressReadTip \/ ProgressRUnlock
  \/ StakesReadProvisioners

\* the goroutines of a running node taking and releasing the chain's lock
SpecLock == Init /\ [][NextLock]_vars

NextSelector ==
  Generation \/ ScoreReceived \/ ScoreVerified \/ SelectionTimeout \/ SelectorNewRound

\* the score selector over the iterations of its rounds
SpecSelector == Init /\ [][NextSelector]_vars

NextAgreement == AccumulatorCollected \/ AgreementListen \/ AgreementNewRound

\* the agreement component and the accumulator feeding it
SpecAgreement == Init /\ [][NextAgreement]_vars

NextReduction ==
  \/ ReductionRun \/ ReductionReceived \/ ReductionTimeout
  \/ ReductionCancel \/ ReductionReturn \/ ReductionNewIteration

\* the reduction steps of the iterations of a round
SpecReduction == Init /\ [][NextReduction]_vars

\* the reduction steps, a running step coming to see that its context is
\* cancelled
SpecReductionFair == Init /\ [][NextReduction]_vars /\ WF_vars(ReductionReturn)

NextDetector ==
  \/ DetectorAddMessage \/ DetectorRemoveMessage \/ DetectorClock \/ DetectorTick
  \/ DetectorQuitCall \/ DetectorQuit \/ DetectorLoopQuit \/ DetectorDeleteAll

\* the stall detector of a peer
SpecDetector == Init /\ [][NextDetector]_vars

\* the stall detector, its ticker and every goroutine that is in the loop
\* or inside Quit kept running
SpecDetectorFair ==
  /\ Init
  /\ [][NextDetector]_vars
  /\ WF_vars(DetectorTick)
  /\ WF_vars(DetectorLoopQuit)
  /\ WF_vars(DetectorDeleteAll)
  /\ WF_vars(DetectorQuit)

NextProcessor == ProcessorCollect \/ ProcessorUpdateHeight

NextMempool ==
  \/ MempoolPendingTx \/ MempoolBlock \/ MempoolTxsBySize
  \/ MempoolSelectTx \/ MempoolSelectTxReturn

NextListener == ListenerSubscribe \/ ListenerNotify \/ ListenerReceive \/ ListenerWait

\* a ChanListener, its publisher and its subscriber
SpecListener == Init /\ [][NextListener]_vars

\* the Mempool, its Run goroutine and the gRPC server
SpecMempool == Init /\ [][NextMempool]_vars

\* the MessageProcessor of a peer and its duplicate filter
SpecProcessor == Init /\ [][NextProcessor]_vars

(***************************************************************************)
(* Properties of the chain acceptor and the block store.                   *)
(***************************************************************************)
\* the last handler called acceptBlock, which returned nil
Accepted == ev.acc.called /\ ev.acc.err = Nil

\* the last handler called acceptBlock, which returned an error
Rejected == ev.acc.called /\ ev.acc.err # Nil

\* C1: after a successful acceptBlock of a block at height h the block store
\* reports the current height h, and the hash stored for height h is the
\* hash of that block.
C1_StoreHoldsAcceptedBlock ==
  Accepted =>
    /\ FetchCurrentHeight(storage).err = Nil
    /\ FetchCurrentHeight(storage).height = ev.acc.blk.height
    /\ FetchBlockHashByHeight(storage, ev.acc.blk.height).err = Nil
    /\ FetchBlockHashByHeight(storage, ev.acc.blk.height).hash = ev.acc.blk.hash

\* a block was accepted at a height for which the store held another block
C1_Witness ==
  /\ Accepted
  /\ ev.acc.blk.height \in DOMAIN ev.acc.storage.heightInd
  /\ ev.acc.storage.heightInd[ev.acc.blk.height].hash # ev.acc.blk.hash
  /\ FetchCurrentHeight(storage).height = ev.acc.blk.height

\* C2: the height of the tip never decreases, and the hash of the tip at an
\* unchanged height changes only in the fallback branch of
\* ProcessBlockFromNetwork.
C2_TipMonotonic ==
  [][/\ tip'.height >= tip.height
     /\ (tip'.height = tip.height /\ tip'.hash # tip.hash => ev'.path = "fallback")]_vars

\* a fallback replaced the tip by the incoming block of the same height
C2_Witness ==
  /\ ev.path = "fallback"
  /\ Accepted
  /\ tip = ev.acc.blk
  /\ tip.height = FetchBlockHeader(ev.acc.storage, FetchState(ev.acc.storage).TipHash).header.height

\* C3: whenever acceptBlock returns an error, the tip is the tip it found and
\* the block store holds no change made by the call.
C3_AcceptBlockAtomic ==
  Rejected => tip = ev.acc.tip /\ storage = ev.acc.storage

\* acceptBlock failed at the executor's persist, after the block was written
\* into the batch
C3_Witness ==
  /\ Rejected
  /\ ev.acc.err = "persist failed"
  /\ ev.acc.storage.bidValuesInd # {}

\* C4: when the executor returns a state root other than the state hash the
\* block declares, acceptBlock fails with the invalid-state-hash error, and
\* the block is neither written to the block store nor made the tip.
C4_InvalidStateHash ==
  ev.acc.called /\ ev.acc.resp # NoRoot /\ ev.acc.resp # ev.acc.blk.stateHash =>
    /\ ev.acc.err = errInvalidStateHash
    /\ tip = ev.acc.tip
    /\ tip.hash # ev.acc.blk.hash
    /\ storage = ev.acc.storage
    /\ "StoreBlock" \notin {ev.log[i] : i \in DOMAIN ev.log}

\* the executor returned a root other than the declared one
C4_Witness ==
  /\ ev.acc.called
  /\ ev.acc.resp = BadRoot
  /\ ev.acc.blk.stateHash # BadRoot
  /\ ev.acc.err = errInvalidStateHash

\* the calls the last handler made
Calls == {ev.log[i] : i \in DOMAIN ev.log}

\* the errors the executor and the block store return to acceptBlock
FaultErrors == {"executor unavailable", errInvalidStateHash, "marshal", "persist failed"}

\* C7: when a block arrives with the tip's height and another hash and the
\* fallback succeeds, the incoming block replaces the tip and the displaced
\* tip's hash is blacklisted; when the fallback fails, the tip is unchanged
\* and nothing is blacklisted.
C7_FallbackAtomic ==
  [][/\ ev'.path = "fallback" /\ ev'.err = Nil =>
          /\ tip' = ev'.acc.blk
          /\ tip'.height = tip.height
          /\ blacklisted' = blacklisted \cup {tip.hash}
     /\ ev'.path = "fallback failed" \/ (ev'.path = "fallback" /\ ev'.err # Nil) =>
          /\ tip' = tip
          /\ blacklisted' = blacklisted]_vars

\* the fallback reverted the tip and accepting the incoming block failed
C7_Witness ==
  /\ ev.path = "fallback"
  /\ ev.err # Nil
  /\ Rejected

\* a block with a blacklisted hash is dropped: the handler returns nil having
\* changed nothing and called nothing
Dropped(blk) ==
  \A fault \in Faults :
    ProcessBlockFromNetwork(chain, blk, fault) = [c |-> chain, err |-> Nil, path |-> "blacklisted"]

\* C8: a hash blacklisted by a fallback stays blacklisted, and every arrival
\* of a block with a blacklisted hash is dropped before any height
\* comparison, verification, fallback or synchroniser step: tip, highestSeen
\* and the state of the synchroniser are unchanged.
C8_BlacklistedDropped ==
  [][/\ blacklisted \subseteq blacklisted'
     /\ (\A blk \in Blocks : blk.hash \in blacklisted => Dropped(blk))'
     /\ ev'.path = "blacklisted" => UNCHANGED chainVars /\ ev'.log = <<>> /\ ev'.err = Nil]_vars

\* a block arrives whose hash is blacklisted, which is the next consecutive
\* block of the tip
C8_Witness ==
  \E blk \in Blocks :
    /\ blk.hash \in blacklisted
    /\ blk.height = tip.height + 1
    /\ blk.prev = tip.hash
    /\ Dropped(blk)

C10_OutSyncAccept ==
  [][state = "outSync" /\ ev'.op \in {"block", "timer"} =>
       /\ "RestartConsensus" \in Calls' <=>
            \/ ev'.op = "timer"
            \/ ev'.acc.called /\ ev'.err = Nil /\ tip'.height = syncTarget
       /\ "RestartConsensus" \in Calls' =>
            /\ loop'.Round = tip'.height + 1
            /\ loop'.Hash = tip'.hash
            /\ state' = "inSync"
       /\ "RestartConsensus" \notin Calls' => loop' = loop /\ state' = "outSync"
       /\ ev'.acc.called /\ ev'.err = Nil =>
            /\ tip' = ev'.acc.blk
            /\ tip'.height = ev'.acc.tip.height + 1]_vars

\* out of sync, a block below the sync target was accepted and consensus
\* stays stopped
C10_Witness ==
  /\ state = "outSync"
  /\ Accepted
  /\ tip = ev.acc.blk
  /\ tip.height < syncTarget
  /\ loop = NoLoop
  /\ "RestartConsensus" \notin Calls

\* the places of a call in the record of the last handler
Places(name) == {i \in DOMAIN ev.log : ev.log[i] = name}

C13_AcceptedBlockPublished ==
  ev.acc.called =>
    /\ Rejected => Places("Publish AcceptedBlock") = {} /\ Places("c.tip = b") = {}
    /\ Accepted =>
         /\ Cardinality(Places("Publish AcceptedBlock")) = 1
         /\ Cardinality(Places("c.tip = b")) = 1
         /\ \A i \in Places("Publish AcceptedBlock") : \A j \in Places("c.tip = b") : j < i
         /\ tip = ev.acc.blk

\* a block was accepted after a fallback and its event published
C13_Witness ==
  /\ Accepted
  /\ ev.path = "fallback"
  /\ Places("Publish AcceptedBlock") # {}
  /\ tip = ev.acc.blk

\* C14: the state transition of an accepted block calls the executor's
\* Finalize exactly when the certificate's step is 3, and its Accept for
\* every other step; one of the two is called, once, and never both.
C14_FinalizeOrAccept ==
  /\ Accepted =>
       /\ Cardinality(Places("Finalize")) = (IF ev.acc.blk.step = 3 THEN 1 ELSE 0)
       /\ Cardinality(Places("Accept")) = (IF ev.acc.blk.step = 3 THEN 0 ELSE 1)
  /\ ev.acc.called /\ Places("Finalize") # {} => ev.acc.blk.step = 3
  /\ ev.acc.called /\ Places("Accept") # {} => ev.acc.blk.step # 3

\* a block of a later iteration was accepted through Accept
C14_Witness ==
  /\ Accepted
  /\ ev.acc.blk.step # 3
  /\ Places("Accept") # {}
  /\ Places("Finalize") = {}

C15_WitnessNoPersist ==
  /\ Accepted
  /\ ev.acc.blk.height % PersistEvery # 0
  /\ Places("Persist") = {}

\* C16: whenever acceptBlock returns an error, the provisioner set the chain
\* holds is the one it held before the call.
C16_ProvisionersOnAccept ==
  Rejected => p = ev.acc.p

\* acceptBlock failed after the state transition had run
C16_Witness ==
  /\ Rejected
  /\ ev.acc.err = "persist failed"
  /\ ev.acc.resp = ev.acc.blk.stateHash

\* C17: a RoundUpdate is made at a restart of consensus, with round
\* tip.height + 1 and the provisioners, seed and hash of that moment; a
\* handler that does not restart or stop consensus leaves the RoundUpdate of
\* the running round as it is, whatever it does to the tip and the
\* provisioner set.
C17_RoundUpdateSnapshot ==
  [][/\ Places("RestartConsensus")' # {} =>
          loop' = [Round |-> tip'.height + 1, P |-> p', Seed |-> tip'.hash, Hash |-> tip'.hash]
     /\ Places("RestartConsensus")' = {} /\ Places("GetBlocks")' = {} => loop' = loop
     /\ Places("GetBlocks")' # {} => loop' = NoLoop]_vars

\* a round is running on a RoundUpdate older than the chain's provisioner set
C17_Witness ==
  /\ loop # NoLoop
  /\ loop.Round = tip.height + 1
  /\ loop.P # p
  /\ ev.op = "block"

\* the stored block whose state the executor holds
HeldBlocks == {storage.blocksInd[h] : h \in {x \in DOMAIN storage.blocksInd :
                                                storage.blocksInd[x].stateHash = rusk}}

\* C12: when syncWithRusk returns nil at startup, it has re-accepted the
\* stored blocks above the block whose state the executor held, all of them,
\* each once and in increasing height order, each through one Finalize or
\* Accept call of the executor; the in-memory tip is then the block store's
\* tip, before and after the start, the executor holds that block's state,
\* and the consensus loop has not been started.
C12_ReacceptAtStartup ==
  [][ev.op = "boot" /\ ev'.op = "startup" /\ ev'.err = Nil =>
       \E held \in HeldBlocks :
         LET top == FetchCurrentHeight(storage).height IN
         /\ ev'.sync = [i \in 1..(top - held.height) |->
                          FetchBlockHashByHeight(storage, held.height + i).hash]
         /\ Cardinality({i \in DOMAIN ev'.log : ev'.log[i] \in {"Finalize", "Accept"}})
              = Len(ev'.sync)
         /\ tip'.hash = FetchState(storage).TipHash
         /\ tip'.hash = FetchState(storage').TipHash
         /\ rusk' = tip'.stateHash
         /\ loop' = NoLoop
         /\ \A i \in DOMAIN ev'.log : ev'.log[i] # "RestartConsensus"]_vars

\* a start re-accepted two blocks or more and returned nil
C12_Witness ==
  /\ ev.op = "startup"
  /\ ev.err = Nil
  /\ Len(ev.sync) >= 2
  /\ tip.hash = ev.sync[Len(ev.sync)]

\* C18: every read of the chain tip or of the provisioner set is made by a
\* goroutine holding the lock, shared or exclusive, every write by a
\* goroutine holding it exclusively, and none while another goroutine
\* holds the lock exclusively.
C18_TipLockHeld ==
  access.by # NoGoroutine =>
    /\ access.exclusive \/ (~access.write /\ access.shared)
    /\ access.holder \in {NoGoroutine, access.by}

\* the sync timer's goroutine read the tip while the goroutine of
\* ProcessBlockFromNetwork held the lock between its write of the
\* provisioner set and its write of the tip
C18_Witness ==
  /\ access.by = "timer"
  /\ access.field = "tip"
  /\ ~access.exclusive /\ ~access.shared
  /\ access.holder = "network"
  /\ pc["network"] = "transitioned"

(***************************************************************************)
(* Properties of the reduction Aggregator.                                 *)
(***************************************************************************)
\* the vote weight accumulated for a block hash
Weight(hash) ==
  IF hash \in DOMAIN voteSets THEN TotalOccurrences(voteSets[hash].Cluster) ELSE 0

\* the hashes a member's vote was collected for
VotedFor(m) == {hash \in DOMAIN voteSets : m \in voteSets[hash].StepVotes.Apk}

\* every committee member's vote was counted at most once in the step
CountedOnce == \A m \in Members : Cardinality(VotedFor(m)) <= 1

\* C5: when every committee member's vote is counted at most once in the
\* step, no two distinct block hashes both accumulate a quorum of vote
\* weight, and the Results returned are all for one hash.
C5_OneQuorum ==
  CountedOnce =>
    /\ \A h1, h2 \in VoteHashes : Weight(h1) >= Quorum(handler) /\ Weight(h2) >= Quorum(handler)
                                    => h1 = h2
    /\ \A i, j \in DOMAIN results : results[i] = results[j]

\* one hash reached the quorum while another hash holds votes too, every
\* member having voted once
C5_Witness ==
  /\ CountedOnce
  /\ \E h1, h2 \in VoteHashes :
       /\ h1 # h2
       /\ Weight(h1) >= Quorum(handler)
       /\ Weight(h2) > 0
       /\ results = <<h1>>

\* C6 as stated: CollectVote returns no Result for a vote that leaves its
\* hash below the quorum, and returns a Result exactly once: on the vote that
\* first brings a hash to the quorum, and never after.
C6_ResultExactlyOnce ==
  /\ ret.called /\ ret.result.kind # "panic" /\ Weight(ret.hash) < Quorum(handler)
       => ret.result.kind = "nil"
  /\ Len(results) <= 1
  /\ (\E hash \in VoteHashes : Weight(hash) >= Quorum(handler)) => Len(results) = 1

\* C6 as amended: CollectVote returns a Result exactly for the votes that
\* leave their hash's weight at or above the quorum, the first of them being
\* the vote that brings the hash to the quorum; the Result names the hash
\* voted for and the votes aggregated for it.
C6_ResultAtQuorum ==
  /\ ret.called /\ ret.result.kind # "panic" =>
       /\ ret.result.kind = "result" <=> Weight(ret.hash) >= Quorum(handler)
       /\ ret.result.kind = "result" =>
            /\ ret.result.hash = ret.hash
            /\ ret.result.StepVotes = voteSets[ret.hash].StepVotes
            /\ ret.sender \in ret.result.StepVotes.Apk
  /\ \A hash \in VoteHashes : Weight(hash) >= Quorum(handler) =>
       \E i \in DOMAIN results : results[i] = hash
  /\ \A i \in DOMAIN results : Weight(results[i]) >= Quorum(handler)

\* a vote collected after its hash had reached the quorum returned a second
\* Result
C6_Witness ==
  /\ ret.called
  /\ ret.result.kind = "result"
  /\ Len(results) = 2
  /\ results[1] = results[2]
  /\ CountedOnce

\* a vote brought its hash exactly to the quorum
C6_WitnessFirst ==
  /\ ret.called
  /\ ret.result.kind = "result"
  /\ Weight(ret.hash) = Quorum(handler)
  /\ Len(results) = 1

\* the senders aggregated for a hash
Signers(hash) == IF hash \in DOMAIN voteSets THEN voteSets[hash].StepVotes.Apk ELSE {}

\* C19: collecting a second vote of the same sender for the same block hash
\* in the step makes CollectVote panic instead of returning, and the vote is
\* not counted a second time: the aggregator is as it was, and no sender is
\* ever in a cluster more often than it has seats.
C19_DuplicateVotePanics ==
  [][/\ ret'.called /\ ret'.sender \in Signers(ret'.hash) =>
          /\ ret'.result.kind = "panic"
          /\ voteSets' = voteSets
          /\ results' = results
     /\ ret'.called /\ ret'.sender \notin Signers(ret'.hash) => ret'.result.kind # "panic"
     /\ \A hash \in DOMAIN voteSets' : \A m \in DOMAIN voteSets'[hash].Cluster :
          voteSets'[hash].Cluster[m] = VotesFor(handler, m)]_vars

\* a sender's second vote for a hash made CollectVote panic
C19_Witness ==
  /\ ret.called
  /\ ret.result.kind = "panic"
  /\ ret.sender \in Signers(ret.hash)
  /\ Weight(ret.hash) = VotesFor(handler, ret.sender)

BestScoreSent == selector.sent[Len(selector.sent)]

\* C21: when the selection timer fires and no score has passed verification
\* since the generation event, the BestScore message carries the hash of 32
\* zero bytes and the timeout is doubled.
C21_EmptyTimeout ==
  [][selector'.op = "publishBestEvent" /\ selector.timer = "running"
       /\ selector.verified = {} =>
          /\ (BestScoreSent)'.topic = "BestScore"
          /\ (BestScoreSent)'.hash = ZeroHash
          /\ selector'.timeout = 2 * selector.timeout]_vars

\* the timer fired in a window in which no score had passed verification,
\* while Process was verifying a score whose proof does not verify
C21_Witness ==
  /\ selector.op = "publishBestEvent"
  /\ selector.verified = {}
  /\ BestScoreSent.topic = "BestScore"
  /\ selector.process.running
  /\ ~selector.process.ev.valid
  /\ BestScoreSent.hash = selector.process.ev.VoteHash


C22_WitnessReset ==
  /\ selector.op = "Initialize"
  /\ selector.replaced.timeout > InitialTimeout
  /\ selector.replaced.threshold < InitialThreshold
  /\ selector.timeout = InitialTimeout

\* the scores of S no other score of S has priority over
BestOf(S) == {e \in S : \A o \in S : o = e \/ ~Priority(o, e)}

VerifiedHashes == {e.VoteHash : e \in selector.verified}

\* C24: a Process call that returns an error leaves the best event as it
\* was before the call, a score that failed verification is never sent on,
\* and every BestScore message carries the hash of a score that passed
\* verification or the hash of 32 zero bytes.
C24_OnlyVerifiedPublished ==
  /\ \A i \in DOMAIN selector.sent :
       \/ selector.sent[i].hash \in VerifiedHashes
       \/ selector.sent[i].topic = "BestScore" /\ selector.sent[i].hash = ZeroHash
  /\ ~selector.process.running /\ selector.verified = {} => selector.bestEvent = emptyScore

\* the timer fired while Process was verifying a score that then failed its
\* verification: the BestScore message carries that score's hash
C24_Witness ==
  /\ selector.op = "Process"
  /\ selector.err = "proof verification failed"
  /\ \E i \in DOMAIN selector.sent :
       /\ selector.sent[i].topic = "BestScore"
       /\ selector.sent[i].hash \notin VerifiedHashes \cup {ZeroHash}
       /\ \E e \in Scores : e.VoteHash = selector.sent[i].hash /\ ~e.valid


(***************************************************************************)
(* Properties of the agreement component.                                  *)
(***************************************************************************)
\* the two messages published for an agreement on block hash h
Winner(h) == <<[topic |-> "AgreementEvent", hash |-> h], [topic |-> "WinningBlockHash", hash |-> h]>>

\* the listen goroutine of the round has received a result
ResultReceived == agreement.results # <<>> /\ ~agreement.listening

\* C25 as claimed: once the first result of the round has been received,
\* the AgreementEvent and the WinningBlockHash of its first agreement have
\* been published, once each and in that order, and nothing else.
C25_FirstResultPublishedOnce ==
  IF ResultReceived THEN agreement.published = Winner(agreement.results[1][1].BlockHash)
  ELSE agreement.published = <<>>

\* C25: in a round the component publishes nothing but the AgreementEvent
\* followed by the WinningBlockHash of the first agreement of the first
\* result, once each: it has published them when it has received the first
\* result and the agreement could be marshalled, and it has published
\* nothing when no result was received or marshalling failed; later results
\* of the round are never published.
C25_FirstResultOnly ==
  IF ResultReceived /\ agreement.err = Nil
  THEN agreement.published = Winner(agreement.results[1][1].BlockHash)
  ELSE agreement.published = <<>>

\* two results were delivered in the round, for different block hashes; the
\* first was published
C25_Witness ==
  /\ ResultReceived
  /\ Len(agreement.results) = 2
  /\ agreement.results[2][1].BlockHash # agreement.results[1][1].BlockHash
  /\ Len(agreement.results[1]) = 2
  /\ agreement.published = Winner(agreement.results[1][1].BlockHash)
  /\ agreement.Round = 2


C26_WitnessAgreement ==
  /\ reduction.ended = <<"quorum", "quorum">>
  /\ reduction.agreement # NoAgreement
  /\ reduction.sent[Len(reduction.sent)].topic = "Agreement"

C28_AddRemoveRestoresMap ==
  /\ detector.last.op = "AddRemove"
  /\ detector.last.r \in addMessage(detector.last.cmd)
  => detector.responses = detector.last.before

\* GetData was sent with nothing pending and answered by NotFound: Block
\* and Tx are still pending
C28_Witness ==
  /\ detector.last = [op |-> "AddRemove", cmd |-> "GetData", r |-> "NotFound", before |-> <<>>]
  /\ DOMAIN detector.responses = {"Block", "Tx"}

\* the loop leaves its ticker only on a tick at which a deadline has passed
LoopBreaksOnDeadlinePassed ==
  [][detector.loop = "ticker" /\ detector'.loop # "ticker" => DeadlinePassed(detector)]_vars

\* a deadline does not stay passed for ever with the loop on its ticker
DeadlinePassedSeen ==
  (detector.loop = "ticker" /\ DeadlinePassed(detector))
    ~> (detector.loop # "ticker" \/ ~DeadlinePassed(detector))

\* C29: a deadline that stays passed makes the loop leave its ticker; the
\* loop, once it has left its ticker, comes to its end with Quitch closed,
\* having emptied the map; and the loop leaves its ticker only on a tick at
\* which a deadline has passed.
C29_DeadlineClosesQuitch ==
  /\ DeadlinePassedSeen
  /\ (detector.loop = "Quit" ~> detector.loop = "done" /\ detector.closed)
  /\ [][detector.loop = "Quit" /\ detector'.loop = "done" => detector'.responses = <<>>]_vars
  /\ LoopBreaksOnDeadlinePassed

\* the loop has seen a passed deadline and panicked in Quit, the map still
\* holding the pending replies
C29_Witness ==
  /\ detector.loop = "Quit"
  /\ detector.quit[LoopCaller] = "panic"
  /\ detector.responses # <<>>

\* C30: no call of Quit panics, and a call that has returned leaves Quitch
\* closed.
C30_QuitSafe ==
  /\ ~detector.panicked
  /\ \A g \in Callers : detector.quit[g] # "panic"
  /\ \A g \in Callers : detector.quit[g] = "returned" => detector.closed

\* the loop and a goroutine of the peer both passed the load of
\* disconnected, and the second close of Quitch panicked
C30_Witness ==
  /\ detector.disconnected = 2
  /\ detector.panicked
  /\ detector.quit[LoopCaller] \in {"returned", "panic"}
  /\ \E g \in Quitters : detector.quit[g] \in {"returned", "panic"}


(***************************************************************************)
(* The order of the steps of acceptBlock, and the blocks discarded.        *)
(***************************************************************************)
\* the tip's state hash is empty or is not the executor's state root
StateHashMismatch == rusk # tip.stateHash \/ tip.stateHash = EmptyHash

\* C36: when acceptBlock is called on a tip whose state hash is empty or is
\* not the executor's state root, it fails with the invalid-state-hash
\* error (or the error of GetStateRoot) whatever the block is, and neither
\* Finalize nor Accept is called.
C36_StateHashCheckedFirst ==
  [][/\ StateHashMismatch
     /\ ev'.op = "block"
     /\ ev'.path = "sync"
     /\ ev'.acc.called
     /\ ev'.acc.tip = tip
     => /\ ev'.acc.err \in {errInvalidStateHash, "executor unavailable"}
        /\ \A i \in DOMAIN ev'.log : ev'.log[i] \notin {"Finalize", "Accept"}]_vars

\* acceptBlock was called on a tip whose state hash is not the executor's
\* root and returned the error of the block's validity checks
C36_Witness ==
  /\ ev.op = "block"
  /\ ev.path = "sync"
  /\ ev.acc.called
  /\ ev.acc.tip = tip
  /\ StateHashMismatch
  /\ ev.acc.err \in {"sanity check failed", "invalid certificate"}
  /\ "GetStateRoot" \notin Calls

\* the state transition is never requested on a tip whose state hash is
\* not the executor's root
C36_NoTransitionOnMismatch ==
  [][/\ StateHashMismatch
     /\ ev'.op = "block"
     /\ ev'.path = "sync"
     /\ ev'.acc.called
     /\ ev'.acc.tip = tip
     => /\ ev'.acc.err # Nil
        /\ \A i \in DOMAIN ev'.log : ev'.log[i] \notin {"Finalize", "Accept"}]_vars


\* a block below the tip, or the tip itself
AlreadyAccepted(blk) ==
  \/ blk.height < tip.height
  \/ blk.height = tip.height /\ blk.hash = tip.hash

\* C40: ProcessBlockFromNetwork on a block below the tip, or on the tip
\* itself, returns no error, makes no call, and leaves the tip, the
\* provisioners, highestSeen, the blacklist and the sync state as they were.
C40_KnownBlockDiscarded ==
  \A blk \in Blocks, fault \in Faults :
    AlreadyAccepted(blk) =>
      LET Discarded(r) ==
            /\ r.err = Nil
            /\ r.c.log = <<>>
            /\ ~r.c.acc.called
            /\ r.c.tip = tip
            /\ r.c.p = p
            /\ r.c.highestSeen = highestSeen
            /\ r.c.blacklisted = blacklisted
            /\ r.c.state = state
            /\ r.c.syncTarget = syncTarget
            /\ r.c.rusk = rusk
            /\ r.c.storage = storage
      IN Discarded(ProcessBlockFromNetwork(chain, blk, fault))

\* the handler has discarded a block below a tip of height 2
C40_Witness ==
  /\ ev.op = "block"
  /\ ev.path = "past"
  /\ ev.err = Nil
  /\ tip.height = 2
  /\ \E blk \in Blocks : AlreadyAccepted(blk) /\ blk.hash # tip.hash

\* the handler has discarded the tip itself
C40_WitnessTip ==
  /\ ev.op = "block"
  /\ ev.path = "known"
  /\ ev.err = Nil
  /\ tip \in Blocks


(***************************************************************************)
(* Properties of the duplicate filter and the MessageProcessor.            *)
(***************************************************************************)
\* C31: a payload for which CanFwd has returned true at the current height
\* is refused by CanFwd from then on at that height, whatever else was
\* handed to the filter since.
C31_NoFalseNegative ==
  \A e \in processor.fwd :
    e.height = processor.dupeMap.height => ~CanFwd(processor.dupeMap, e.id).ok

\* a payload was forwarded at a height, another was forwarded after it, and
\* it was refused when it came again
C31_Witness ==
  /\ processor.last.out.checked
  /\ ~processor.last.out.ok
  /\ \E e \in processor.last.prior : e.height = processor.dupeMap.height
  /\ \E e \in processor.fwd :
       e.id # processor.last.msg.id /\ e.height = processor.dupeMap.height

C33_ProcessedOncePerId ==
  /\ CanRoute(processor.last.msg.topic)
  /\ processor.last.prior # {}
  => /\ ~processor.last.out.invoked
     /\ processor.last.out.err = Nil
     /\ processor.last.out.resp = <<>>

\* a Tx whose first arrival the processor failed on arrived again and was
\* dropped
C33_Witness ==
  /\ processor.last.msg.topic = "Tx"
  /\ \E e \in processor.last.prior : e.invoked /\ e.err # Nil
  /\ ~processor.last.out.invoked
  /\ processor.last.out.checked


(***************************************************************************)
(* Properties of the Mempool.                                              *)
(***************************************************************************)
\* the txids of a sequence of transactions
Ids(txs) == {txs[i].id : i \in DOMAIN txs}

C35_PoolSingleGoroutine == mempool.last.during = "idle"

\* a transaction was put into the pool while SelectTx was reading it
C35_Witness ==
  /\ mempool.last.op = "processTx"
  /\ mempool.last.err = Nil
  /\ mempool.last.during = "reading"
  /\ mempool.selectTx = "reading"
  /\ mempool.view # mempool.verified

\* C37: the verified pool holds only transactions the verifier accepts,
\* none of them a coinbase, each txid once; processTx returns
\* ErrCoinbaseTxNotAllowed for a coinbase and ErrAlreadyExists for a pooled
\* txid; and a processTx that returned an error left the pool as it was.
C37_PoolInvariant ==
  /\ \A i \in DOMAIN mempool.verified :
       /\ mempool.verified[i].valid
       /\ mempool.verified[i].type # "Distribute"
       /\ \A j \in DOMAIN mempool.verified : mempool.verified[j].id = mempool.verified[i].id => j = i
  /\ mempool.last.op = "processTx" =>
       /\ mempool.last.err # Nil => mempool.verified = mempool.last.before
       /\ mempool.last.err = Nil => mempool.last.tx \notin Ids(mempool.last.before)
       /\ (\E t \in TxDescs : t.id = mempool.last.tx /\ t.type = "Distribute")
            => mempool.last.err \in {ErrCoinbaseTxNotAllowed, "hash err"}
       /\ (/\ mempool.last.tx \in Ids(mempool.last.before)
           /\ \A t \in TxDescs : t.id = mempool.last.tx => t.type # "Distribute")
            => mempool.last.err \in {ErrAlreadyExists, "hash err"}

\* a pooled transaction was submitted again and refused
C37_Witness ==
  /\ mempool.last.op = "processTx"
  /\ mempool.last.err = ErrAlreadyExists
  /\ Len(mempool.verified) = 2

\* a coinbase was refused
C37_WitnessCoinbase ==
  /\ mempool.last.op = "processTx"
  /\ mempool.last.err = ErrCoinbaseTxNotAllowed
  /\ mempool.verified # <<>>

RECURSIVE TotalSize(_)
TotalSize(txs) == IF txs = <<>> THEN 0 ELSE Head(txs).size + TotalSize(Tail(txs))

\* C38: the transactions GetMempoolTxsBySize returns are a prefix of the
\* pool in the order of the fees, and their sizes add up to maxTxsSize at
\* most.
C38_SizeWithinMax ==
  mempool.last.op = "GetMempoolTxsBySize" =>
    /\ Len(mempool.last.result) <= Len(mempool.verified)
    /\ mempool.last.result = SubSeq(mempool.verified, 1, Len(mempool.last.result))
    /\ \A i \in 1..(Len(mempool.verified) - 1) :
         mempool.verified[i].fee >= mempool.verified[i + 1].fee
    /\ TotalSize(mempool.last.result) <= mempool.last.max

\* the sizes of the transactions returned add up to 2^32 for a request of
\* less
C38_Witness ==
  /\ mempool.last.op = "GetMempoolTxsBySize"
  /\ TotalSize(mempool.last.result) = Uint32
  /\ mempool.last.max < Uint32

\* what is returned is a prefix of the pool in the order of the fees
C38_FeePrefix ==
  mempool.last.op = "GetMempoolTxsBySize" =>
    /\ Len(mempool.last.result) <= Len(mempool.verified)
    /\ mempool.last.result = SubSeq(mempool.verified, 1, Len(mempool.last.result))
    /\ \A i \in 1..(Len(mempool.verified) - 1) :
         mempool.verified[i].fee >= mempool.verified[i + 1].fee


(***************************************************************************)
(* Properties of the ChanListener.                                         *)
(***************************************************************************)
\* the message of the last Notify is in the channel or with the subscriber
Delivered ==
  \/ \E i \in DOMAIN listener.messageChannel : listener.messageChannel[i].n = listener.last.n
  \/ \E i \in DOMAIN listener.received : listener.received[i].n = listener.last.n

\* every message delivered to a safe listener is a clone, and to another
\* listener the message itself
CloneForSafe ==
  /\ \A i \in DOMAIN listener.messageChannel : listener.messageChannel[i].clone = listener.safe
  /\ \A i \in DOMAIN listener.received : listener.received[i].clone = listener.safe

\* C39 as stated: the message of a Notify (its clone for a safe listener)
\* is delivered exactly if the channel had free buffer space, and otherwise
\* Notify returned the buffer-full error and the message is not delivered.
C39_DeliveredIffBufferSpace ==
  listener.last.n # 0 =>
    /\ Delivered <=> listener.last.room
    /\ ~listener.last.room => listener.last.err = ErrBufferFull
    /\ CloneForSafe

\* a safe listener was notified of a message that cannot be cloned while
\* its channel had room
C39_Witness ==
  /\ listener.last.n # 0
  /\ listener.safe
  /\ listener.last.room
  /\ ~listener.last.copyable
  /\ listener.last.err # Nil
  /\ ~Delivered

\* C39 amended: Notify always returns.  The message (its clone for a safe
\* listener) is delivered exactly if it could be cloned, for a safe
\* listener, and the channel could take it at once: its buffer had room or
\* the subscriber was waiting on it.  Otherwise Notify returned the error
\* of the clone or else the buffer-full error, and the message is never
\* delivered.
C39_DeliveredIffSendable ==
  /\ listener.n < MaxNotify => ENABLED ListenerNotify
  /\ listener.last.n # 0 =>
       LET cloned == ~listener.safe \/ listener.last.copyable
           sendable == listener.last.room \/ listener.last.waiting
       IN /\ Delivered <=> (cloned /\ sendable)
          /\ listener.last.err = Nil <=> Delivered
          /\ ~cloned => listener.last.err = "clone failed"
          /\ (cloned /\ ~sendable) => listener.last.err = ErrBufferFull
  /\ CloneForSafe
  /\ \A k \in 1..listener.n :
       Cardinality({i \in DOMAIN listener.messageChannel : listener.messageChannel[i].n = k})
         + Cardinality({i \in DOMAIN listener.received : listener.received[i].n = k}) <= 1

\* a message was refused on a full buffer and later ones were delivered
C39_WitnessFull ==
  /\ listener.cap = 1
  /\ listener.n = MaxNotify
  /\ \E k \in 1..(MaxNotify - 1) :
       /\ \A i \in DOMAIN listener.received : listener.received[i].n # k
       /\ \E i \in DOMAIN listener.received : listener.received[i].n > k
  /\ listener.last.err = ErrBufferFull

\* a message was handed to a subscriber waiting on a channel without buffer
C39_WitnessUnbuffered ==
  /\ listener.cap = 0
  /\ listener.last.n # 0
  /\ listener.last.waiting
  /\ listener.last.err = Nil
  /\ Delivered

====
